---- MODULE Spec2Model ----
(***************************************************************************)
(* Vector field visualizer: the expression compiler (createFieldFunction,  *)
(* createFieldFunction3D), the 2D view (VectorField2D: field closures,     *)
(* particle ensemble, animation tick) and the 3D particle system           *)
(* (ParticleSystem: init effect and useFrame callback).                    *)
(*                                                                         *)
(* Numbers are fixed point: an integer n stands for n / Scale.  The        *)
(* non-finite and non-numeric JavaScript values are separate value kinds.  *)
(* An expression source is the sequence of its tokens.                     *)
(***************************************************************************)
EXTENDS Integers, Sequences, FiniteSets, TLC

\* ------------------------------------------------------------ fixed point
\* units per 1.0
Scale == 1000

Abs(a) == IF a < 0 THEN -a ELSE a

\* round-to-nearest quotient (halves away from zero), b # 0
RoundDiv(a, b) ==
  LET q == ((2 * Abs(a)) + Abs(b)) \div (2 * Abs(b))
  IN  IF (a < 0) = (b < 0) THEN q ELSE -q

\* product and quotient of two fixed-point numbers
FMul(a, b) == RoundDiv(a * b, Scale)
FDiv(a, b) == RoundDiv(a * Scale, b)

\* -------------------------------------------------------- JavaScript values
\* k: "num" (finite number n), "nan", "inf", "ninf", "undef", "str",
\*    "obj" (object or function named s), "absent" (no such binding)
Num(n)   == [k |-> "num", n |-> n, s |-> ""]
NaN      == [k |-> "nan", n |-> 0, s |-> ""]
PosInf   == [k |-> "inf", n |-> 0, s |-> ""]
NegInf   == [k |-> "ninf", n |-> 0, s |-> ""]
Undef    == [k |-> "undef", n |-> 0, s |-> ""]
StrVal   == [k |-> "str", n |-> 0, s |-> ""]
Obj(s)   == [k |-> "obj", n |-> 0, s |-> s]
Absent   == [k |-> "absent", n |-> 0, s |-> ""]

\* typeof v === 'number'
IsNumberType(v) == v.k \in {"num", "nan", "inf", "ninf"}

\* isFinite(v) for a value of type number
IsFiniteVal(v) == v.k = "num"

\* ToNumber for an arithmetic operand: undefined, objects and their string
\* forms convert to NaN
ToNumber(v) == IF IsNumberType(v) THEN v ELSE NaN

Negate(v) ==
  LET a == ToNumber(v)
  IN  CASE a.k = "num"  -> Num(-a.n)
        [] a.k = "inf"  -> NegInf
        [] a.k = "ninf" -> PosInf
        [] OTHER        -> NaN

\* sign of a numeric value: -1, 0, 1
SignOf(a) ==
  CASE a.k = "inf"  -> 1
    [] a.k = "ninf" -> -1
    [] OTHER        -> IF a.n > 0 THEN 1 ELSE IF a.n < 0 THEN -1 ELSE 0

InfOfSign(sg) == IF sg > 0 THEN PosInf ELSE NegInf

\* a + b: string concatenation when an operand is an object or a string
JsAdd(v, w) ==
  IF v.k \in {"obj", "str"} \/ w.k \in {"obj", "str"} THEN StrVal
  ELSE LET a == ToNumber(v)
           b == ToNumber(w)
       IN  CASE a.k = "nan" \/ b.k = "nan"         -> NaN
             [] a.k = "num" /\ b.k = "num"         -> Num(a.n + b.n)
             [] a.k = "num"                        -> b
             [] b.k = "num"                        -> a
             [] a.k = b.k                          -> a
             [] OTHER                              -> NaN

JsSub(v, w) ==
  LET a == ToNumber(v)
      b == Negate(w)
  IN  CASE a.k = "nan" \/ b.k = "nan"         -> NaN
        [] a.k = "num" /\ b.k = "num"         -> Num(a.n + b.n)
        [] a.k = "num"                        -> b
        [] b.k = "num"                        -> a
        [] a.k = b.k                          -> a
        [] OTHER                              -> NaN

JsMul(v, w) ==
  LET a == ToNumber(v)
      b == ToNumber(w)
  IN  CASE a.k = "nan" \/ b.k = "nan"         -> NaN
        [] a.k = "num" /\ b.k = "num"         -> Num(FMul(a.n, b.n))
        [] SignOf(a) = 0 \/ SignOf(b) = 0     -> NaN
        [] OTHER                              -> InfOfSign(SignOf(a) * SignOf(b))

JsDiv(v, w) ==
  LET a == ToNumber(v)
      b == ToNumber(w)
  IN  CASE a.k = "nan" \/ b.k = "nan"                  -> NaN
        [] a.k = "num" /\ b.k = "num" /\ b.n # 0      -> Num(FDiv(a.n, b.n))
        [] a.k = "num" /\ b.k = "num" /\ a.n = 0      -> NaN
        [] a.k = "num" /\ b.k = "num"                 -> InfOfSign(SignOf(a))
        [] a.k = "num"                                -> Num(0)
        [] b.k = "num"                                ->
             InfOfSign(SignOf(a) * (IF b.n < 0 THEN -1 ELSE 1))
        [] OTHER                                      -> NaN

JsBin(op, v, w) ==
  CASE op = "+" -> JsAdd(v, w)
    [] op = "-" -> JsSub(v, w)
    [] op = "*" -> JsMul(v, w)
    [] OTHER    -> JsDiv(v, w)

\* ------------------------------------------------- expression sources (tokens)
\* numeric literals and their values
NumLit == [t \in {"0", "1", "2", "0.5"} |->
             CASE t = "0" -> 0 [] t = "1" -> Scale [] t = "2" -> 2 * Scale
               [] OTHER -> Scale \div 2]

\* identifier tokens (IdentifierName, none of them a reserved word)
Idents == {"x", "y", "z", "Math", "globalThis", "g", "q", "abs", "random", "min",
           "PI"}

Tok(toks, pos) == IF pos <= Len(toks) THEN toks[pos] ELSE "<eof>"

\* syntax tree nodes: t is the node type, a and b the operands, s a name or
\* operator, n a literal's value
Nil == [t |-> "nil"]
Node(t, a, b, s, n) == [t |-> t, a |-> a, b |-> b, s |-> s, n |-> n]
POk(node, pos) == [ok |-> TRUE, node |-> node, pos |-> pos]
PFail == [ok |-> FALSE, node |-> Nil, pos |-> 0]

\* The parser of the function body, by grammar rule; left is the operand
\* already parsed for the rules that continue one (Nil otherwise).
RECURSIVE Parse(_, _, _, _)
Parse(rule, toks, left, pos) ==
  CASE rule = "Expression" ->
         \* AssignmentExpression { "," AssignmentExpression }
         LET l == Parse("Assignment", toks, Nil, pos)
         IN  IF l.ok THEN Parse("CommaRest", toks, l.node, l.pos) ELSE PFail
    [] rule = "CommaRest" ->
         IF Tok(toks, pos) = ","
         THEN LET r == Parse("Assignment", toks, Nil, pos + 1)
              IN  IF r.ok
                  THEN Parse("CommaRest", toks,
                             Node("comma", left, r.node, "", 0), r.pos)
                  ELSE PFail
         ELSE POk(left, pos)
    [] rule = "Assignment" ->
         \* target "=" AssignmentExpression | additive; the target must be an
         \* identifier or a member access
         LET l == Parse("Additive", toks, Nil, pos)
         IN  IF l.ok /\ Tok(toks, l.pos) = "="
             THEN IF l.node.t \in {"var", "member"}
                  THEN LET r == Parse("Assignment", toks, Nil, l.pos + 1)
                       IN  IF r.ok
                           THEN POk(Node("assign", l.node, r.node, "", 0), r.pos)
                           ELSE PFail
                  ELSE PFail
             ELSE l
    [] rule = "Additive" ->
         LET l == Parse("Multiplicative", toks, Nil, pos)
         IN  IF l.ok THEN Parse("AdditiveRest", toks, l.node, l.pos) ELSE PFail
    [] rule = "AdditiveRest" ->
         IF Tok(toks, pos) \in {"+", "-"}
         THEN LET r == Parse("Multiplicative", toks, Nil, pos + 1)
              IN  IF r.ok
                  THEN Parse("AdditiveRest", toks,
                             Node("bin", left, r.node, Tok(toks, pos), 0), r.pos)
                  ELSE PFail
         ELSE POk(left, pos)
    [] rule = "Multiplicative" ->
         LET l == Parse("Unary", toks, Nil, pos)
         IN  IF l.ok THEN Parse("MultiplicativeRest", toks, l.node, l.pos)
             ELSE PFail
    [] rule = "MultiplicativeRest" ->
         IF Tok(toks, pos) \in {"*", "/"}
         THEN LET r == Parse("Unary", toks, Nil, pos + 1)
              IN  IF r.ok
                  THEN Parse("MultiplicativeRest", toks,
                             Node("bin", left, r.node, Tok(toks, pos), 0), r.pos)
                  ELSE PFail
         ELSE POk(left, pos)
    [] rule = "Unary" ->
         IF Tok(toks, pos) = "-"
         THEN LET r == Parse("Unary", toks, Nil, pos + 1)
              IN  IF r.ok THEN POk(Node("neg", r.node, Nil, "", 0), r.pos)
                  ELSE PFail
         ELSE LET l == Parse("Primary", toks, Nil, pos)
              IN  IF l.ok THEN Parse("PostfixRest", toks, l.node, l.pos)
                  ELSE PFail
    [] rule = "PostfixRest" ->
         \* member access "." name and calls "(" [argument] ")"
         CASE Tok(toks, pos) = "." ->
                IF Tok(toks, pos + 1) \in Idents
                THEN Parse("PostfixRest", toks,
                           Node("member", left, Nil, Tok(toks, pos + 1), 0),
                           pos + 2)
                ELSE PFail
           [] Tok(toks, pos) = "(" ->
                IF Tok(toks, pos + 1) = ")"
                THEN Parse("PostfixRest", toks,
                           Node("call", left, Nil, "", 0), pos + 2)
                ELSE LET r == Parse("Assignment", toks, Nil, pos + 1)
                     IN  IF r.ok /\ Tok(toks, r.pos) = ")"
                         THEN Parse("PostfixRest", toks,
                                    Node("call", left, r.node, "", 0), r.pos + 1)
                         ELSE PFail
           [] OTHER -> POk(left, pos)
    [] OTHER ->
         \* Primary: a literal, an identifier or a parenthesised Expression
         LET t == Tok(toks, pos)
         IN  CASE t \in DOMAIN NumLit ->
                    POk(Node("num", Nil, Nil, "", NumLit[t]), pos + 1)
               [] t \in Idents -> POk(Node("var", Nil, Nil, t, 0), pos + 1)
               [] t = "(" ->
                    LET r == Parse("Expression", toks, Nil, pos + 1)
                    IN  IF r.ok /\ Tok(toks, r.pos) = ")"
                        THEN POk(r.node, r.pos + 1)
                        ELSE PFail
               [] OTHER -> PFail

\* new Function(params, "'use strict'; return <expression>;"): the body parses
\* when the expression is empty ("return ;") or a whole Expression
ParseBody(toks) ==
  IF toks = <<>> THEN POk(Node("void", Nil, Nil, "", 0), 1)
  ELSE LET r == Parse("Expression", toks, Nil, 1)
       IN  IF r.ok /\ r.pos = Len(toks) + 1 THEN r ELSE PFail


\* ------------------------------------------------------ expression evaluation
\* Ambient state an expression can reach: glob is the global object's
\* properties, math the properties overriding those of the Math object
\* (Absent: not set).  st = [env: the call's parameters, amb: ambient state].
AmbientInit == [glob |-> [i \in Idents |-> Absent], math |-> [i \in Idents |-> Absent]]

ROk(v, st) == [v |-> v, thrown |-> FALSE, st |-> st]
RThrow(st) == [v |-> Undef, thrown |-> TRUE, st |-> st]

\* value of the identifier name: a parameter, else a property of the global
\* object, else a ReferenceError
LookupVar(name, st) ==
  CASE name \in DOMAIN st.env /\ st.env[name].k # "absent" -> ROk(st.env[name], st)
    [] st.amb.glob[name].k # "absent" -> ROk(st.amb.glob[name], st)
    [] name = "globalThis"            -> ROk(Obj("globalThis"), st)
    [] OTHER                          -> RThrow(st)

\* o.name
GetMember(o, name, st) ==
  CASE o.k = "undef" -> RThrow(st)
    [] o.k = "obj" /\ o.s = "globalThis" ->
         IF st.amb.glob[name].k # "absent" THEN ROk(st.amb.glob[name], st)
         ELSE IF name \in {"Math", "globalThis"} THEN ROk(Obj(name), st)
         ELSE ROk(Undef, st)
    [] o.k = "obj" /\ o.s = "Math" ->
         IF st.amb.math[name].k # "absent" THEN ROk(st.amb.math[name], st)
         ELSE IF name \in {"abs", "random", "min"} THEN ROk(Obj(name), st)
         ELSE IF name = "PI" THEN ROk(Num(3142), st)
         ELSE ROk(Undef, st)
    [] OTHER -> ROk(Undef, st)

\* o.name = v in strict code
SetMember(o, name, v, st) ==
  CASE o.k = "obj" /\ o.s = "globalThis" ->
         ROk(v, [st EXCEPT !.amb.glob[name] = v])
    [] o.k = "obj" /\ o.s = "Math" ->
         IF name = "PI" THEN RThrow(st)
         ELSE ROk(v, [st EXCEPT !.amb.math[name] = v])
    [] o.k = "obj" -> ROk(v, st)
    [] OTHER       -> RThrow(st)

\* name = v in strict code
SetVar(name, v, st) ==
  CASE name \in DOMAIN st.env /\ st.env[name].k # "absent" ->
         ROk(v, [st EXCEPT !.env[name] = v])
    [] st.amb.glob[name].k # "absent" ->
         ROk(v, [st EXCEPT !.amb.glob[name] = v])
    [] OTHER -> RThrow(st)

\* f(arg) with noArg when the argument list is empty; rnd is the number
\* Math.random produces
CallValue(f, arg, noArg, rnd, st) ==
  CASE f.k = "obj" /\ f.s = "abs" ->
         LET a == IF noArg THEN NaN ELSE ToNumber(arg)
         IN  ROk(IF a.k = "num" THEN Num(Abs(a.n))
                 ELSE IF a.k = "nan" THEN NaN ELSE PosInf, st)
    [] f.k = "obj" /\ f.s = "random" -> ROk(Num(rnd), st)
    [] f.k = "obj" /\ f.s = "min" ->
         ROk(IF noArg THEN PosInf ELSE ToNumber(arg), st)
    [] OTHER -> RThrow(st)

RECURSIVE Eval(_, _, _)
Eval(node, st, rnd) ==
  CASE node.t = "void" -> ROk(Undef, st)
    [] node.t = "num"  -> ROk(Num(node.n), st)
    [] node.t = "var"  -> LookupVar(node.s, st)
    [] node.t = "neg"  ->
         LET a == Eval(node.a, st, rnd)
         IN  IF a.thrown THEN a ELSE ROk(Negate(a.v), a.st)
    [] node.t = "bin"  ->
         LET a == Eval(node.a, st, rnd)
         IN  IF a.thrown THEN a
             ELSE LET b == Eval(node.b, a.st, rnd)
                  IN  IF b.thrown THEN b ELSE ROk(JsBin(node.s, a.v, b.v), b.st)
    [] node.t = "comma" ->
         LET a == Eval(node.a, st, rnd)
         IN  IF a.thrown THEN a ELSE Eval(node.b, a.st, rnd)
    [] node.t = "member" ->
         LET o == Eval(node.a, st, rnd)
         IN  IF o.thrown THEN o ELSE GetMember(o.v, node.s, o.st)
    [] node.t = "call" ->
         LET f == Eval(node.a, st, rnd)
         IN  IF f.thrown THEN f
             ELSE IF node.b.t = "nil" THEN CallValue(f.v, Undef, TRUE, rnd, f.st)
             ELSE LET a == Eval(node.b, f.st, rnd)
                  IN  IF a.thrown THEN a
                      ELSE CallValue(f.v, a.v, FALSE, rnd, a.st)
    [] node.t = "assign" ->
         IF node.a.t = "var"
         THEN LET r == Eval(node.b, st, rnd)
              IN  IF r.thrown THEN r ELSE SetVar(node.a.s, r.v, r.st)
         ELSE LET o == Eval(node.a.a, st, rnd)
              IN  IF o.thrown THEN o
                  ELSE LET r == Eval(node.b, o.st, rnd)
                       IN  IF r.thrown THEN r
                           ELSE SetMember(o.v, node.a.s, r.v, r.st)
    [] OTHER -> RThrow(st)


\* ------------------------------------------------------- compiled expressions
\* Variants of the operators below, each differing from the code in one place;
\* the properties at the end of the module are checked to tell them apart.
\* createFieldFunction without the outer try/catch: a SyntaxError escapes
createFieldFunction_NoCatch(expression) ==
  LET r == ParseBody(expression)
  IN  [ok |-> r.ok, node |-> r.node, threw |-> ~r.ok]

\* the result filter without the isFinite test
FiniteOrZero_TypeOnly(v) == IF IsNumberType(v) THEN v ELSE Num(0)

\* createFieldFunction(expression): new Function('x', 'y', 'Math', body) inside
\* try/catch.  ok: the body parsed and the closure over func is returned;
\* otherwise the fallback () => 0.  threw: an exception reached the caller.
createFieldFunction(expression) ==
  LET r == ParseBody(expression)
  IN  [ok |-> r.ok, node |-> r.node, threw |-> FALSE]

\* createFieldFunction3D(expression): new Function('x', 'y', 'z', 'Math', body)
createFieldFunction3D(expression) ==
  LET r == ParseBody(expression)
  IN  [ok |-> r.ok, node |-> r.node, threw |-> FALSE]

\* the Math argument the closure passes: the global binding of Math
MathArg(amb) ==
  IF amb.glob["Math"].k # "absent" THEN amb.glob["Math"] ELSE Obj("Math")

\* typeof result === 'number' && isFinite(result) ? result : 0
FiniteOrZero(v) == IF IsNumberType(v) /\ IsFiniteVal(v) THEN v ELSE Num(0)

\* what a call of the compiled function gives: ret the value returned, threw
\* whether an exception reached the caller, amb the ambient state afterwards
CallResult(r) ==
  [ret   |-> IF r.thrown THEN Num(0) ELSE FiniteOrZero(r.v),
   threw |-> FALSE,
   amb   |-> r.st.amb]

\* f(x, y) for f = createFieldFunction(expression)
InvokeField(f, x, y, amb, rnd) ==
  IF ~f.ok THEN [ret |-> Num(0), threw |-> FALSE, amb |-> amb]
  ELSE CallResult(Eval(f.node,
         [env |-> [x |-> Num(x), y |-> Num(y), Math |-> MathArg(amb)],
          amb |-> amb], rnd))

\* f(x, y, z) for f = createFieldFunction3D(expression)
InvokeField3D(f, x, y, z, amb, rnd) ==
  IF ~f.ok THEN [ret |-> Num(0), threw |-> FALSE, amb |-> amb]
  ELSE CallResult(Eval(f.node,
         [env |-> [x |-> Num(x), y |-> Num(y), z |-> Num(z), Math |-> MathArg(amb)],
          amb |-> amb], rnd))


\* ------------------------------------------------------------ bounds and inputs
\* particles per ensemble (the views create 500 and 300)
NumParticles == 1
\* events one run handles: user events, effect runs, animation frames
MaxEvents == 6
\* point sources the set may hold
MaxSources == 2

\* values Math.random() yields, in [0, 1): for a coordinate, for a life
RandomOutcomes == {0, 500}
LifeOutcomes == {0, 5}
\* frame deltas the render loop passes to useFrame, in seconds
Deltas == {0, 16}
\* positions of the speed slider (min 0.1, max 3.0)
Speeds == {Scale, 3 * Scale}
\* expressions the user types into the field inputs
FieldSources == { <<"x", "+">> }
\* canvas positions of mouse events, in pixels: on the dipole preset's source
\* at (-1, 0) and on the origin
ClickPixels == {<<200, 300>>, <<300, 300>>}

\* ------------------------------------------------------------------ 2D view
\* const range = 3
range == 3
\* 0.016: the base timestep of animate
BaseDt == 16
\* 0.005: the life decrement of animate per unit of speed
BaseDecay == 5
\* 0.01: the regularisation of the point-source term
Epsilon == 10

\* Variants of SourceSum and Fx, each differing from the code in one place.
\* the source term with the strength squared
RECURSIVE SourceSum_SquaredStrength(_, _, _, _, _, _)
SourceSum_SquaredStrength(acc, sources, i, x, y, axis) ==
  IF i > Len(sources) THEN acc
  ELSE LET ps  == sources[i]
           dx  == x - ps.x
           dy  == y - ps.y
           rSq == FMul(dx, dx) + FMul(dy, dy) + Epsilon
           d   == IF axis = "x" THEN dx ELSE dy
       IN  SourceSum_SquaredStrength(
             JsAdd(acc, Num(FDiv(FMul(FMul(ps.strength, ps.strength), d), rSq))),
             sources, i + 1, x, y, axis)

\* Fx without the loop over the point sources
Fx_BaseOnly(c, x, y, amb) == InvokeField(c.baseFx, x, y, amb, 0).ret

\* sum over the point sources of strength * d / rSq, added to acc in list
\* order; axis selects dx or dy
RECURSIVE SourceSum(_, _, _, _, _, _)
SourceSum(acc, sources, i, x, y, axis) ==
  IF i > Len(sources) THEN acc
  ELSE LET ps  == sources[i]
           dx  == x - ps.x
           dy  == y - ps.y
           rSq == FMul(dx, dx) + FMul(dy, dy) + Epsilon
           d   == IF axis = "x" THEN dx ELSE dy
       IN  SourceSum(JsAdd(acc, Num(FDiv(FMul(ps.strength, d), rSq))),
                     sources, i + 1, x, y, axis)

\* the closures Fx and Fy of one effect run c: the compiled base field plus
\* the point sources c captured
Fx(c, x, y, amb) ==
  SourceSum(InvokeField(c.baseFx, x, y, amb, 0).ret,
            c.pointSources, 1, x, y, "x")

Fy(c, x, y, amb) ==
  SourceSum(InvokeField(c.baseFy, x, y, amb, 0).ret,
            c.pointSources, 1, x, y, "y")

\* (Math.random() * 2 - 1) * range, r the value Math.random() gave
RandomCoord(r, rng) == (2 * r - Scale) * rng

\* Variants of the integrator's operators, each differing from the code in
\* one place.
\* a bounds test that also fires on the boundary
OutOfBounds_Inclusive(coord, rng) == Abs(coord) >= rng * Scale
\* a respawn test that ignores the position
ShouldRespawn_LifeOnly(life, coords, rng) == life <= 0
\* a respawn test that lets life reach 0
ShouldRespawn_StrictLife(life, coords, rng) ==
  life < 0 \/ \E i \in 1..Len(coords) : Abs(coords[i]) > rng * Scale
\* a decrement with the wrong sign
LifeDecay2D_Negated(speed) == -FMul(5, speed)
\* an advance that takes the step twice
Advance2D_Twice(coord, v, speed) == coord + 2 * FMul(v, FMul(16, speed))
\* a 3D decrement that ignores the frame's delta
LifeDecay3D_NoDelta(delta, speed) == FMul(300, speed)

\* the respawn test of both integrators
OutOfBounds(coord, rng) == Abs(coord) > rng * Scale

ShouldRespawn(life, coords, rng) ==
  life <= 0 \/ \E i \in 1..Len(coords) : OutOfBounds(coords[i], rng)

\* the life decrement of animate
LifeDecay2D(speed) == FMul(BaseDecay, speed)

\* particle.x += vx * dt, with dt = 0.016 * animationSpeed
Advance2D(coord, v, speed) == coord + FMul(v, FMul(BaseDt, speed))

\* one particle's pass through the loop body of animate, under closure c; rs
\* are the values Math.random() gives if the particle respawns.  The result
\* records the pass: pre and post the particle before and after, v the sampled
\* vector, moved whether the position was advanced, adv and life1 the position
\* and life before the respawn test, respawned whether it was reset.
UpdateParticle2D(p, vx, vy, speed, rs) ==
  LET moved == IsFiniteVal(vx) /\ IsFiniteVal(vy)
      x1    == IF moved THEN Advance2D(p.x, vx.n, speed) ELSE p.x
      y1    == IF moved THEN Advance2D(p.y, vy.n, speed) ELSE p.y
      life1 == p.life - LifeDecay2D(speed)
      resp  == ShouldRespawn(life1, <<x1, y1>>, range)
  IN  [pre |-> <<p.x, p.y>>, prelife |-> p.life, v |-> <<vx, vy>>,
       moved |-> moved, adv |-> <<x1, y1>>, life1 |-> life1,
       respawned |-> resp,
       post |-> IF resp
                THEN [x |-> RandomCoord(rs[1], range),
                      y |-> RandomCoord(rs[2], range), life |-> Scale]
                ELSE [x |-> x1, y |-> y1, life |-> life1]]

\* the loop body with vx = Fx(particle.x, particle.y), vy = Fy(...)
StepParticle2D(p, c, rs, amb) ==
  UpdateParticle2D(p, Fx(c, p.x, p.y, amb), Fy(c, p.x, p.y, amb),
                   c.animationSpeed, rs)


\* ------------------------------------------------------- divergence grid
\* const gridSize = 100
gridSize == 100
\* const step = (2 * range) / gridSize
step == FDiv(2 * range * Scale, gridSize * Scale)
\* const h = 0.01 of derivative
h == 10

\* the values the loop variables i and j of the build take (i <= gridSize),
\* and those of the heat map loops of animate (i < gridSize)
BuildIndices == 0..gridSize
ReadIndices == 0..(gridSize - 1)
\* the indices at which the model computes the cells: the first row and
\* column, the last the heat map draws, the last the build writes
SampledIndices == {0, 99, 100}

\* Variants of the operators below, each differing from the code in one place.
\* a one-sided difference over the same denominator
derivative_OneSided(c, comp, x, y, axis, amb) ==
  LET f(u, v) == IF comp = "Fx" THEN Fx(c, u, v, amb) ELSE Fy(c, u, v, amb)
  IN  IF axis = "x"
      THEN JsDiv(JsSub(f(x + h, y), f(x, y)), Num(2 * h))
      ELSE JsDiv(JsSub(f(x, y + h), f(x, y)), Num(2 * h))

\* the reduction without the isFinite test
ReduceStep_NoGuard(acc, div) ==
  [minDiv |-> IF acc.minDiv.k = "nan" \/ div.k = "nan" THEN NaN
              ELSE IF div.k = "ninf" \/ (div.k = "num" /\ acc.minDiv.k = "inf")
                      \/ (div.k = "num" /\ acc.minDiv.k = "num"
                          /\ div.n < acc.minDiv.n)
                   THEN div ELSE acc.minDiv,
   maxDiv |-> IF acc.maxDiv.k = "nan" \/ div.k = "nan" THEN NaN
              ELSE IF div.k = "inf" \/ (div.k = "num" /\ acc.maxDiv.k = "ninf")
                      \/ (div.k = "num" /\ acc.maxDiv.k = "num"
                          /\ div.n > acc.maxDiv.n)
                   THEN div ELSE acc.maxDiv]

\* the normalisation without the maxDiv === minDiv test
Normalize_NoGuard(div, minDiv, maxDiv) ==
  JsDiv(JsSub(div, minDiv), JsSub(maxDiv, minDiv))

\* a < b for two numbers that are not NaN
JsLess(a, b) ==
  CASE a.k = "ninf" -> b.k # "ninf"
    [] a.k = "inf"  -> FALSE
    [] b.k = "inf"  -> TRUE
    [] b.k = "ninf" -> FALSE
    [] OTHER        -> a.n < b.n

\* Math.min(a, b), Math.max(a, b)
JsMin(a, b) ==
  IF a.k = "nan" \/ b.k = "nan" THEN NaN ELSE IF JsLess(b, a) THEN b ELSE a

JsMax(a, b) ==
  IF a.k = "nan" \/ b.k = "nan" THEN NaN ELSE IF JsLess(a, b) THEN b ELSE a

\* derivative(f, x, y, axis) for f the closure Fx or Fy (comp) of effect run c
derivative(c, comp, x, y, axis, amb) ==
  LET f(u, v) == IF comp = "Fx" THEN Fx(c, u, v, amb) ELSE Fy(c, u, v, amb)
  IN  IF axis = "x"
      THEN JsDiv(JsSub(f(x + h, y), f(x - h, y)), Num(2 * h))
      ELSE JsDiv(JsSub(f(x, y + h), f(x, y - h)), Num(2 * h))

\* the position of grid point (i, j): x = -range + i * step, y = range - j * step
GridX(i) == i * step - range * Scale
GridY(j) == range * Scale - j * step

\* div of the build at grid point (i, j): dFx_dx + dFy_dy
Divergence(c, i, j, amb) ==
  JsAdd(derivative(c, "Fx", GridX(i), GridY(j), "x", amb),
        derivative(c, "Fy", GridX(i), GridY(j), "y", amb))

\* one pass of the inner loop body after the cell is written:
\* if (isFinite(div)) { minDiv = Math.min(minDiv, div); maxDiv = Math.max(...) }
ReduceStep(acc, div) ==
  IF IsFiniteVal(div)
  THEN [minDiv |-> JsMin(acc.minDiv, div), maxDiv |-> JsMax(acc.maxDiv, div)]
  ELSE acc

\* the cells in the order the loops write them: i outer, j inner
LoopOrder(idx) ==
  LET n == Cardinality(idx)
      nth(k) == CHOOSE i \in idx : Cardinality({m \in idx : m < i}) = k - 1
  IN  [k \in 1..(n * n) |-> <<nth(((k - 1) \div n) + 1), nth(((k - 1) % n) + 1)>>]

\* minDiv and maxDiv after the loops, from minDiv = Infinity, maxDiv = -Infinity
RECURSIVE Reduce(_, _, _, _)
Reduce(cell, order, k, acc) ==
  IF k > Len(order) THEN acc
  ELSE Reduce(cell, order, k + 1, ReduceStep(acc, cell[order[k]]))

\* divergenceGrid, minDiv and maxDiv after the build loops have written cell;
\* rows and cols: divergenceGrid.length and divergenceGrid[i].length
GridFrom(cell, idx) ==
  LET r == Reduce(cell, LoopOrder(idx), 1, [minDiv |-> PosInf, maxDiv |-> NegInf])
  IN  [built |-> TRUE,
       rows |-> Cardinality(BuildIndices), cols |-> Cardinality(BuildIndices),
       cell |-> cell, minDiv |-> r.minDiv, maxDiv |-> r.maxDiv]

\* the build of one effect run c
BuildGrid(c, amb) ==
  GridFrom([p \in SampledIndices \X SampledIndices |->
              Divergence(c, p[1], p[2], amb)], SampledIndices)

\* maxDiv === minDiv
StrictEq(a, b) == a.k # "nan" /\ a = b

\* normalized of the heat map: maxDiv === minDiv ? 0.5 : (div - minDiv) / (maxDiv - minDiv)
Normalize(div, minDiv, maxDiv) ==
  IF StrictEq(maxDiv, minDiv) THEN Num(Scale \div 2)
  ELSE JsDiv(JsSub(div, minDiv), JsSub(maxDiv, minDiv))

\* what the heat map loops of animate draw from grid g: for each cell they
\* read, the normalized value, or Absent for a cell the isFinite test skips
HeatMap(g) ==
  [p \in {q \in DOMAIN g.cell : q[1] \in ReadIndices /\ q[2] \in ReadIndices} |->
     IF IsFiniteVal(g.cell[p]) THEN Normalize(g.cell[p], g.minDiv, g.maxDiv)
     ELSE Absent]

\* ---------------------------------------------------------- color mapper
\* colorMaps: the anchors of each theme, channels r, g, b
colorMaps ==
  [viridis |-> << <<68, 1, 84>>, <<72, 40, 120>>, <<62, 73, 137>>,
                  <<49, 104, 142>>, <<38, 130, 142>>, <<31, 158, 137>>,
                  <<53, 183, 121>>, <<110, 206, 88>>, <<181, 222, 43>>,
                  <<253, 231, 37>> >>,
   plasma |-> << <<13, 8, 135>>, <<75, 3, 161>>, <<125, 3, 168>>,
                 <<168, 34, 150>>, <<203, 70, 121>>, <<229, 107, 93>>,
                 <<248, 148, 65>>, <<253, 195, 40>>, <<240, 249, 33>> >>,
   cool |-> << <<0, 255, 255>>, <<51, 204, 255>>, <<102, 153, 255>>,
               <<153, 102, 255>>, <<204, 51, 255>>, <<255, 0, 255>> >>,
   hot |-> << <<0, 0, 0>>, <<128, 0, 0>>, <<255, 0, 0>>, <<255, 128, 0>>,
              <<255, 255, 0>>, <<255, 255, 128>>, <<255, 255, 255>> >>,
   rainbow |-> << <<148, 0, 211>>, <<75, 0, 130>>, <<0, 0, 255>>, <<0, 255, 0>>,
                  <<255, 255, 0>>, <<255, 127, 0>>, <<255, 0, 0>> >>,
   grayscale |-> << <<0, 0, 0>>, <<64, 64, 64>>, <<128, 128, 128>>,
                    <<192, 192, 192>>, <<255, 255, 255>> >>]

\* Variants of the operators below, each differing from the code in one place.
\* getColor without the branch for the top edge
TopEdge_Never(idx, n) == FALSE

\* t = Math.max(0, Math.min(1, t))
ClampUnit(t) == JsMax(Num(0), JsMin(Num(Scale), t))

\* idx = Math.floor(scaled) as an array index: a whole number, or NaN
FloorIndex(scaled) ==
  CASE scaled.k = "num" -> Num(scaled.n \div Scale)
    [] OTHER            -> scaled

\* idx >= colors.length - 1 (false for NaN)
TopEdge(idx, n) == idx.k = "num" /\ idx.n >= n - 1

\* colors[idx]: the anchor, or the empty tuple for undefined (idx is not an
\* index of the array)
ColorAt(colors, idx) ==
  IF idx.k = "num" /\ idx.n \in 0..(Len(colors) - 1)
  THEN colors[idx.n + 1] ELSE << >>

\* Math.round(c1 + (c2 - c1) * frac) for channels c1, c2 and frac in [0, 1)
Interpolate(c1, c2, frac) ==
  (c1 * Scale + (c2 - c1) * frac + Scale \div 2) \div Scale

\* getColor(t, theme): rgb the channels of the string returned, threw whether
\* a TypeError left the function (a channel read of undefined), reads the
\* indices at which colors was read
getColor(t, theme) ==
  LET colors == colorMaps[theme]
      n      == Len(colors)
      c      == ClampUnit(t)
      scaled == JsMul(c, Num((n - 1) * Scale))
      idx    == FloorIndex(scaled)
      frac   == IF scaled.k = "num" THEN scaled.n - idx.n * Scale ELSE 0
      c1     == ColorAt(colors, idx)
      c2     == ColorAt(colors, IF idx.k = "num" THEN Num(idx.n + 1) ELSE idx)
  IN  IF TopEdge(idx, n)
      THEN [threw |-> FALSE, rgb |-> colors[n], reads |-> {Num(n - 1)}]
      ELSE IF c1 = << >> \/ c2 = << >>
      THEN [threw |-> TRUE, rgb |-> << >>,
            reads |-> {idx, IF idx.k = "num" THEN Num(idx.n + 1) ELSE idx}]
      ELSE [threw |-> FALSE,
            rgb |-> <<Interpolate(c1[1], c2[1], frac),
                      Interpolate(c1[2], c2[2], frac),
                      Interpolate(c1[3], c2[3], frac)>>,
            reads |-> {idx, Num(idx.n + 1)}]

\* ------------------------------------------------------------------ 3D view
\* range={2} passed to ParticleSystem
range3D == 2
\* 0.3: the life decrement of useFrame per second and unit of speed
BaseDecay3D == 300

\* the life decrement of the useFrame callback: delta * 0.3 * speed
LifeDecay3D(delta, speed) == FMul(FMul(delta, BaseDecay3D), speed)

\* particle.position.x += vx * delta * speed
Advance3D(coord, v, delta, speed) == coord + FMul(FMul(v, delta), speed)

\* one particle's pass through the forEach body of the useFrame callback;
\* f holds the three expression sources, rs the values Math.random() gives if
\* the particle respawns
UpdateParticle3D(p, vx, vy, vz, delta, speed, rs) ==
  LET moved == IsFiniteVal(vx) /\ IsFiniteVal(vy) /\ IsFiniteVal(vz)
      x1    == IF moved THEN Advance3D(p.x, vx.n, delta, speed) ELSE p.x
      y1    == IF moved THEN Advance3D(p.y, vy.n, delta, speed) ELSE p.y
      z1    == IF moved THEN Advance3D(p.z, vz.n, delta, speed) ELSE p.z
      life1 == p.life - LifeDecay3D(delta, speed)
      resp  == ShouldRespawn(life1, <<x1, y1, z1>>, range3D)
  IN  [pre |-> <<p.x, p.y, p.z>>, prelife |-> p.life, v |-> <<vx, vy, vz>>,
       moved |-> moved, adv |-> <<x1, y1, z1>>, life1 |-> life1,
       respawned |-> resp,
       post |-> IF resp
                THEN [x |-> RandomCoord(rs[1], range3D),
                      y |-> RandomCoord(rs[2], range3D),
                      z |-> RandomCoord(rs[3], range3D), life |-> Scale]
                ELSE [x |-> x1, y |-> y1, z |-> z1, life |-> life1]]

\* the forEach body with vx = fieldFn.Fx(x, y, z), vy, vz likewise
StepParticle3D(p, f, delta, speed, rs, amb) ==
  UpdateParticle3D(p, InvokeField3D(f[1], p.x, p.y, p.z, amb, 0).ret,
                   InvokeField3D(f[2], p.x, p.y, p.z, amb, 0).ret,
                   InvokeField3D(f[3], p.x, p.y, p.z, amb, 0).ret,
                   delta, speed, rs)

\* ---------------------------------------------------------------------- state
VARIABLES
  view,              \* the mounted route: "2d" (VectorField2D) or "3d"
  fx, fy,            \* VectorField2D: the expression sources
  error,             \* the error state ("null" for null)
  isAnimating, animationSpeed,
  interactionMode, pointSources, draggedSourceId,
  colorTheme, isPulsingEnabled,
  nextSourceId,      \* nextSourceIdRef.current
  particles,         \* particlesRef.current
  animationFrame,    \* animationFrameRef.current (0: undefined)
  rafQueue,          \* callbacks requestAnimationFrame holds: [id, c]
  rafNext,           \* the id the next requestAnimationFrame returns
  effectPending,     \* a dependency changed and the effect has not re-run
  hasCleanup,        \* the last effect run returned its cleanup function
  fx3, fy3, fz3,     \* VectorField3D: the expression sources
  error3, isAnimating3, animationSpeed3, showParticles,
  particles3,        \* ParticleSystem: particlesRef.current
  initPending3,      \* ParticleSystem is mounted, its init effect has not run
  ambient,           \* global state reachable from a compiled expression
  events,            \* events handled so far
  last,              \* record of the latest particle pass
  expression,        \* compiler harness: the source last compiled
  fieldFn,           \* compiler harness: what the compiler returned for it
  call,              \* compiler harness: record of the latest invocation
  tick,              \* record of the latest call of animate
  prevCall,          \* compiler harness: record of the invocation before it
  probe,             \* field harness: record of the latest evaluation of Fx, Fy
  grid,              \* field harness: divergenceGrid, minDiv, maxDiv, heat map
  color,             \* field harness: record of the latest call of getColor
  edit               \* field harness: record of the latest source-list edit

display == <<colorTheme, isPulsingEnabled>>
vars2D == <<fx, fy, error, isAnimating, animationSpeed, interactionMode,
            pointSources, draggedSourceId, display, nextSourceId, particles,
            animationFrame, rafQueue, rafNext, effectPending, hasCleanup>>
vars3D == <<fx3, fy3, fz3, error3, isAnimating3, animationSpeed3,
            showParticles, particles3, initPending3>>
varsH == <<expression, fieldFn, call, prevCall>>
varsF == <<probe, grid, color, edit>>
vars == <<view, vars2D, vars3D, ambient, events, last, tick, varsH, varsF>>

\* The record of a particle pass: view, whether particles were stepped, the
\* time step (2D: dt, 3D: delta) and speed it used, one record per particle
\* (see StepParticle2D), and prev, the summary of the pass before it over the
\* same ensemble.
NoSummary == [stepped |-> FALSE, dt |-> 0, speed |-> 0, decay |-> 0]
NoPass == [view |-> "none", stepped |-> FALSE, dt |-> 0, speed |-> 0,
           steps |-> <<>>, prev |-> NoSummary]

\* decay: the amount the pass subtracted from the first particle's life
Summary(pass) ==
  [stepped |-> pass.stepped /\ pass.steps # <<>>, dt |-> pass.dt,
   speed |-> pass.speed,
   decay |-> IF pass.stepped /\ pass.steps # <<>>
             THEN pass.steps[1].prelife - pass.steps[1].life1 ELSE 0]

\* what one effect run of VectorField2D closes over: the state of the render
\* and baseFx, baseFy, compiled once at the start of the run
Closure == [fx |-> fx, fy |-> fy,
            baseFx |-> createFieldFunction(fx), baseFy |-> createFieldFunction(fy),
            isAnimating |-> isAnimating,
            animationSpeed |-> animationSpeed, pointSources |-> pointSources,
            colorTheme |-> colorTheme, isPulsingEnabled |-> isPulsingEnabled]

\* Variant of MarkerSources: the markers drawn from the list the component
\* state holds when animate runs
MarkerSources_Live(c) == pointSources

\* The point-source list each part of animate under closure c works from:
\* the grid it draws was built with Fx and Fy of the run, the particles and the
\* static arrows call Fx and Fy, the markers loop over pointSources.
GridSources(c) == c.pointSources
ParticleSources(c) == c.pointSources
ArrowSources(c) == c.pointSources
MarkerSources(c) == c.pointSources

\* animate has not been called
NoTick == [ran |-> FALSE, fx |-> <<>>, fy |-> <<>>, grid |-> <<>>,
           particles |-> <<>>, arrows |-> <<>>, markers |-> <<>>,
           fresh |-> TRUE, cellsBuilt |-> TRUE]

\* the record of one call of animate under closure c.  fresh: the expressions
\* and sources the closure's grid and field were made from are those of the
\* component state; cellsBuilt: the build wrote every cell the heat map reads
TickOf(c) ==
  [ran |-> TRUE, fx |-> c.fx, fy |-> c.fy,
   grid |-> GridSources(c), particles |-> ParticleSources(c),
   arrows |-> ArrowSources(c), markers |-> MarkerSources(c),
   fresh |-> c.fx = fx /\ c.fy = fy /\ c.pointSources = pointSources,
   cellsBuilt |-> ReadIndices \subseteq BuildIndices]

\* useState / useRef initial values of VectorField2D, before its first effect
Mount2D ==
  /\ fx = <<"-", "y">> /\ fy = <<"x">>
  /\ error = "null"
  /\ isAnimating = TRUE /\ animationSpeed = Scale
  /\ interactionMode = "none" /\ pointSources = <<>>
  /\ draggedSourceId = -1
  /\ colorTheme = "viridis" /\ isPulsingEnabled = TRUE
  /\ nextSourceId = 0
  /\ particles = <<>>
  /\ animationFrame = 0 /\ rafQueue = {} /\ rafNext = 1
  /\ effectPending = TRUE /\ hasCleanup = FALSE

\* VectorField3D is not mounted
Idle3D ==
  /\ fx3 = <<"-", "y">> /\ fy3 = <<"x">> /\ fz3 = <<"0">>
  /\ error3 = "null"
  /\ isAnimating3 = TRUE /\ animationSpeed3 = Scale
  /\ showParticles = TRUE
  /\ particles3 = <<>>

NoCall == [made |-> FALSE, dim |-> 0, args |-> <<>>, rnd |-> 0, ret |-> Num(0),
           threw |-> FALSE, before |-> AmbientInit,
           raw |-> ROk(Num(0), [env |-> << >>, amb |-> AmbientInit])]

\* the compiler harness is not in use
HarnessIdle ==
  /\ expression = <<>>
  /\ fieldFn = [dim |-> 0, ok |-> FALSE, node |-> Nil, threw |-> FALSE]
  /\ call = NoCall
  /\ prevCall = NoCall

\* no field evaluation recorded, no grid built
NoProbe == [made |-> FALSE, fx |-> <<>>, fy |-> <<>>, sources |-> <<>>,
            x |-> 0, y |-> 0, base |-> <<Num(0), Num(0)>>,
            v |-> <<Num(0), Num(0)>>, doubled |-> <<Num(0), Num(0)>>]
NoGrid == [built |-> FALSE, rows |-> 0, cols |-> 0, cell |-> << >>,
           minDiv |-> Num(0), maxDiv |-> Num(0),
           fx |-> <<>>, fy |-> <<>>, sources |-> <<>>,
           builds |-> 0, prevRows |-> 0, prevCols |-> 0,
           drawn |-> FALSE, heat |-> << >>]

\* getColor has not been called
NoColor == [made |-> FALSE, t |-> Num(0), theme |-> "viridis",
            out |-> [threw |-> FALSE, rgb |-> << >>, reads |-> {}]]

\* no source-list edit recorded
NoEdit == [made |-> FALSE, op |-> "none", before |-> << >>, id |-> 0,
           at |-> [x |-> 0, y |-> 0], after |-> << >>]

\* the field harness is not in use
FieldIdle ==
  /\ probe = NoProbe
  /\ grid = NoGrid
  /\ color = NoColor
  /\ edit = NoEdit

Init ==
  /\ view \in {"2d", "3d"}
  /\ Mount2D
  /\ Idle3D
  /\ initPending3 = (view = "3d")
  /\ ambient = AmbientInit
  /\ events = 0
  /\ last = NoPass
  /\ tick = NoTick
  /\ HarnessIdle
  /\ FieldIdle


\* ------------------------------------------------------- VectorField2D actions
\* the values Math.random() yields for the coordinates of one position: a
\* corner of the domain (every coordinate -range) and the middle of a face
RandomPairs   == {<<0, 0>>, <<0, 500>>}
RandomTriples == {<<0, 0, 0>>, <<0, 500, 500>>}

\* the draws of Math.random() of one pass: none (zeros) for a particle that
\* does not respawn
Draws(n, respawns, choices, none) ==
  {r \in [1..n -> choices] : \A i \in 1..n : ~respawns[i] => r[i] = none}

\* the particles the effect pushes when particlesRef.current is empty; r[i]
\* are the three values Math.random() gives for particle i
InitialParticles(r) ==
  [i \in 1..NumParticles |->
     [x |-> RandomCoord(r[i][1][1], range), y |-> RandomCoord(r[i][1][2], range),
      life |-> r[i][2]]]

\* Math.name is the built-in function: neither the global Math nor its
\* member name has been overwritten
MathCallable(amb, name) ==
  MathArg(amb) = Obj("Math") /\ amb.math[name].k = "absent"

\* the ambient state the calls of the grid build leave: its last calls are
\* Fx(x - h, y) and Fy(x, y - h) at grid point (gridSize, gridSize)
AmbientAfterBuild(c, amb) ==
  InvokeField(c.baseFy, GridX(gridSize), GridY(gridSize) - h,
              InvokeField(c.baseFx, GridX(gridSize) - h, GridY(gridSize),
                          amb, 0).amb, 0).amb

\* the ambient state the calls of animate leave: its last calls are Fx and Fy
\* at the last point of the static arrow grid, (2.85, -2.85)
AmbientAfterAnimate(c, amb) ==
  InvokeField(c.baseFy, 2850, -2850,
              InvokeField(c.baseFx, 2850, -2850, amb, 0).amb, 0).amb

\* the grid build throws: Math.min(minDiv, div) of the first finite div is a
\* TypeError once an expression of the run has overwritten Math.min
BuildThrows(c, amb) ==
  /\ ~MathCallable(AmbientAfterBuild(c, amb), "min")
  /\ \E i \in SampledIndices, j \in SampledIndices :
       IsFiniteVal(Divergence(c, i, j, AmbientAfterBuild(c, amb)))

\* the try block of the effect throws when compiling or the grid build throws
EffectThrows(c) ==
  c.baseFx.threw \/ c.baseFy.threw \/ BuildThrows(c, ambient)

\* Variant of AnimatePass: a pass that ignores isAnimating
AnimatePass_AlwaysSteps(c, parts, rs) ==
  [view |-> "2d", stepped |-> TRUE,
   dt |-> FMul(BaseDt, c.animationSpeed), speed |-> c.animationSpeed,
   steps |-> [i \in 1..Len(parts) |->
                StepParticle2D(parts[i], c, <<0, 0>>, ambient)],
   prev |-> Summary(last)]

\* the particle pass of one call of animate under closure c
AnimatePass(c, parts, rs) ==
  IF c.isAnimating
  THEN [view |-> "2d", stepped |-> TRUE,
        dt |-> FMul(BaseDt, c.animationSpeed), speed |-> c.animationSpeed,
        steps |-> [i \in 1..Len(parts) |-> StepParticle2D(parts[i], c, rs[i], ambient)],
        prev |-> Summary(last)]
  ELSE [view |-> "2d", stepped |-> FALSE, dt |-> 0, speed |-> c.animationSpeed,
        steps |-> <<>>, prev |-> Summary(last)]

\* which particles the pass of animate under c respawns
Respawns2D(c, parts) ==
  [i \in 1..Len(parts) |->
     c.isAnimating /\ StepParticle2D(parts[i], c, <<0, 0>>, ambient).respawned]

PassResult(pass, parts) ==
  IF pass.stepped THEN [i \in 1..Len(parts) |-> pass.steps[i].post] ELSE parts

\* Variant of AfterCleanup: a cleanup that cancels nothing
AfterCleanup_NoCancel == rafQueue

\* the callbacks still requested once the browser has taken cb to run it
AfterFrame(cb) == rafQueue \ {cb}

\* the cleanup of the previous effect run: cancelAnimationFrame of the frame
\* animationFrameRef names
AfterCleanup ==
  IF hasCleanup /\ animationFrame # 0
  THEN {cb \in rafQueue : cb.id # animationFrame}
  ELSE rafQueue

\* the effect of VectorField2D: cleanup of the previous run, then the body
RunEffect ==
  /\ view = "2d" /\ effectPending /\ events < MaxEvents
  /\ effectPending' = FALSE
  /\ events' = events + 1
  /\ \E c \in {Closure} :
       IF EffectThrows(c)
       THEN /\ error' = "Error rendering field"
            /\ hasCleanup' = FALSE
            /\ rafQueue' = AfterCleanup
            /\ ambient' = AmbientAfterBuild(c, ambient)
            /\ UNCHANGED <<particles, animationFrame, rafNext, last, tick>>
       ELSE /\ error' = "null"
            /\ ambient' = AmbientAfterAnimate(c, AmbientAfterBuild(c, ambient))
            /\ tick' = TickOf(c)
            /\ \E r \in IF particles = <<>>
                        THEN [1..NumParticles -> RandomPairs \X LifeOutcomes]
                        ELSE {<< >>} :
                 \E parts \in {IF particles = <<>> THEN InitialParticles(r)
                                ELSE particles} :
                   \E rs \in Draws(Len(parts), Respawns2D(c, parts),
                                   RandomPairs, <<0, 0>>) :
                     \E pass \in {AnimatePass(c, parts, rs)} :
                       /\ particles' = PassResult(pass, parts)
                       /\ last' = pass
            /\ rafQueue' = AfterCleanup \cup {[id |-> rafNext, c |-> c]}
            /\ animationFrame' = rafNext
            /\ rafNext' = rafNext + 1
            /\ hasCleanup' = TRUE
  /\ UNCHANGED <<view, fx, fy, isAnimating, animationSpeed, interactionMode,
                 pointSources, draggedSourceId, nextSourceId, display, vars3D,
                 varsH, varsF>>

\* the browser runs a requested animation frame: animate under the closure
\* of the effect run that requested it
Frame ==
  /\ view = "2d" /\ events < MaxEvents
  /\ \E cb \in rafQueue :
       \E rs \in Draws(Len(particles), Respawns2D(cb.c, particles),
                       RandomPairs, <<0, 0>>) :
         \E pass \in {AnimatePass(cb.c, particles, rs)} :
           /\ particles' = PassResult(pass, particles)
           /\ last' = pass
           /\ tick' = TickOf(cb.c)
           /\ ambient' = AmbientAfterAnimate(cb.c, ambient)
           /\ rafQueue' = AfterFrame(cb) \cup {[id |-> rafNext, c |-> cb.c]}
  /\ animationFrame' = rafNext
  /\ rafNext' = rafNext + 1
  /\ events' = events + 1
  /\ UNCHANGED <<view, fx, fy, error, isAnimating, animationSpeed,
                 interactionMode, pointSources, draggedSourceId, nextSourceId,
                 effectPending, hasCleanup, display, vars3D, varsH, varsF>>

\* onChange of the Fx input
SetFx ==
  /\ view = "2d" /\ ~effectPending /\ events < MaxEvents
  /\ \E src \in FieldSources \ {fx} : fx' = src
  /\ effectPending' = TRUE
  /\ events' = events + 1
  /\ UNCHANGED <<view, fy, error, isAnimating, animationSpeed, interactionMode,
                 pointSources, draggedSourceId, nextSourceId, particles,
                 animationFrame, rafQueue, rafNext, hasCleanup, display, vars3D,
                 ambient, last, varsH, varsF, tick>>

\* onChange of the Fy input
SetFy ==
  /\ view = "2d" /\ ~effectPending /\ events < MaxEvents
  /\ \E src \in FieldSources \ {fy} : fy' = src
  /\ effectPending' = TRUE
  /\ events' = events + 1
  /\ UNCHANGED <<view, fx, error, isAnimating, animationSpeed, interactionMode,
                 pointSources, draggedSourceId, nextSourceId, particles,
                 animationFrame, rafQueue, rafNext, hasCleanup, display, vars3D,
                 ambient, last, varsH, varsF, tick>>

\* the play / pause button
ToggleAnimating ==
  /\ view = "2d" /\ ~effectPending /\ events < MaxEvents
  /\ isAnimating' = ~isAnimating
  /\ effectPending' = TRUE
  /\ events' = events + 1
  /\ UNCHANGED <<view, fx, fy, error, animationSpeed, interactionMode,
                 pointSources, draggedSourceId, nextSourceId, particles,
                 animationFrame, rafQueue, rafNext, hasCleanup, display, vars3D,
                 ambient, last, varsH, varsF, tick>>

\* the themes selected
SampledThemes == {"viridis", "plasma"}

\* onChange of the color theme select
SetColorTheme ==
  /\ view = "2d" /\ ~effectPending /\ events < MaxEvents
  /\ \E theme \in SampledThemes \ {colorTheme} : colorTheme' = theme
  /\ effectPending' = TRUE
  /\ events' = events + 1
  /\ UNCHANGED <<view, fx, fy, error, isAnimating, animationSpeed,
                 interactionMode, pointSources, draggedSourceId,
                 isPulsingEnabled, nextSourceId, particles, animationFrame,
                 rafQueue, rafNext, hasCleanup, vars3D, ambient, last, varsH,
                 varsF, tick>>

\* the pulsing button
ToggleIsPulsingEnabled ==
  /\ view = "2d" /\ ~effectPending /\ events < MaxEvents
  /\ isPulsingEnabled' = ~isPulsingEnabled
  /\ effectPending' = TRUE
  /\ events' = events + 1
  /\ UNCHANGED <<view, fx, fy, error, isAnimating, animationSpeed,
                 interactionMode, pointSources, draggedSourceId, colorTheme,
                 nextSourceId, particles, animationFrame, rafQueue, rafNext,
                 hasCleanup, vars3D, ambient, last, varsH, varsF, tick>>

\* onChange of the speed slider
SetAnimationSpeed ==
  /\ view = "2d" /\ ~effectPending /\ events < MaxEvents
  /\ \E sp \in Speeds \ {animationSpeed} : animationSpeed' = sp
  /\ effectPending' = TRUE
  /\ events' = events + 1
  /\ UNCHANGED <<view, fx, fy, error, isAnimating, interactionMode,
                 pointSources, draggedSourceId, nextSourceId, particles,
                 animationFrame, rafQueue, rafNext, hasCleanup, display, vars3D,
                 ambient, last, varsH, varsF, tick>>


\* canvas size in pixels
size == 600

\* canvasToFieldCoords
canvasToFieldCoords(canvasX, canvasY) ==
  [x |-> RoundDiv(canvasX * 2 * range * Scale, size) - range * Scale,
   y |-> range * Scale - RoundDiv(canvasY * 2 * range * Scale, size)]

\* physicsPresets: the sources of each preset
physicsPresets ==
  << << [x |-> -1000, y |-> 0, strength |-> 3000, type |-> "source"],
        [x |-> 1000, y |-> 0, strength |-> -3000, type |-> "sink"] >>,
     << [x |-> -500, y |-> 0, strength |-> -4000, type |-> "sink"],
        [x |-> 1500, y |-> 0, strength |-> -1000, type |-> "sink"] >>,
     << [x |-> -1000, y |-> -1000, strength |-> 2000, type |-> "source"],
        [x |-> 1000, y |-> -1000, strength |-> -2000, type |-> "sink"],
        [x |-> 1000, y |-> 1000, strength |-> 2000, type |-> "source"],
        [x |-> -1000, y |-> 1000, strength |-> -2000, type |-> "sink"] >>,
     << [x |-> -1200, y |-> 0, strength |-> -3000, type |-> "sink"],
        [x |-> 1200, y |-> 0, strength |-> -3000, type |-> "sink"] >> >>

\* the click radius test of the drag hit test: sqrt(dx*dx + dy*dy) < 0.3,
\* compared on the squares
WithinClickRadius(ps, fieldX, fieldY) ==
  LET dx == ps.x - fieldX
      dy == ps.y - fieldY
  IN  FMul(dx, dx) + FMul(dy, dy) < 90

\* index of the first source the hit test accepts, 0 if none
FirstHit(sources, fieldX, fieldY) ==
  LET hits == {i \in 1..Len(sources) : WithinClickRadius(sources[i], fieldX, fieldY)}
  IN  IF hits = {} THEN 0 ELSE CHOOSE i \in hits : \A j \in hits : i <= j

\* Variants of NewSource and PlacedMode, each differing from the code in one
\* place.
\* a placed source with the sign of the strength flipped
NewSource_Negated(id, at, strength, type) ==
  [id |-> id, x |-> at.x, y |-> at.y, strength |-> -strength, type |-> type]
\* a placement that leaves the mode armed
PlacedMode_Kept(mode) == mode

\* the object handleCanvasMouseDown appends
NewSource(id, at, strength, type) ==
  [id |-> id, x |-> at.x, y |-> at.y, strength |-> strength, type |-> type]

\* setInteractionMode('none') after a placement made in mode
PlacedMode(mode) == "none"

\* the three mode buttons: each toggles its mode
SetInteractionMode ==
  /\ events < MaxEvents
  /\ view = "2d"
  /\ \E m \in {"add-source", "add-sink", "drag"} :
       interactionMode' = IF interactionMode = m THEN "none" ELSE m
  /\ events' = events + 1
  /\ UNCHANGED <<view, fx, fy, error, isAnimating, animationSpeed,
                 pointSources, draggedSourceId, nextSourceId, particles,
                 animationFrame, rafQueue, rafNext, effectPending, hasCleanup,
                 display, vars3D, ambient, last, varsH, varsF, tick>>

handleCanvasMouseDown ==
  /\ view = "2d" /\ ~effectPending /\ events < MaxEvents
  /\ \E px \in ClickPixels :
       LET at == canvasToFieldCoords(px[1], px[2])
       IN  CASE interactionMode = "drag" ->
                  LET hit == FirstHit(pointSources, at.x, at.y)
                  IN  /\ draggedSourceId' =
                           IF hit # 0 THEN pointSources[hit].id ELSE draggedSourceId
                      /\ UNCHANGED <<pointSources, nextSourceId, interactionMode,
                                     effectPending>>
             [] interactionMode = "add-source" ->
                  /\ Len(pointSources) < MaxSources
                  /\ pointSources' =
                       Append(pointSources, NewSource(nextSourceId, at, 2000, "source"))
                  /\ nextSourceId' = nextSourceId + 1
                  /\ interactionMode' = PlacedMode(interactionMode)
                  /\ effectPending' = TRUE
                  /\ UNCHANGED draggedSourceId
             [] interactionMode = "add-sink" ->
                  /\ Len(pointSources) < MaxSources
                  /\ pointSources' =
                       Append(pointSources, NewSource(nextSourceId, at, -2000, "sink"))
                  /\ nextSourceId' = nextSourceId + 1
                  /\ interactionMode' = PlacedMode(interactionMode)
                  /\ effectPending' = TRUE
                  /\ UNCHANGED draggedSourceId
             [] OTHER ->
                  UNCHANGED <<pointSources, nextSourceId, interactionMode,
                              effectPending, draggedSourceId>>
  /\ events' = events + 1
  /\ UNCHANGED <<view, fx, fy, error, isAnimating, animationSpeed, particles,
                 animationFrame, rafQueue, rafNext, hasCleanup, display, vars3D,
                 ambient, last, varsH, varsF, tick>>

\* Variants of the list operators below, each differing from the code in one
\* place.
\* a move that ignores the id
MovedSources_All(sources, id, at) ==
  [i \in 1..Len(sources) |-> [sources[i] EXCEPT !.x = at.x, !.y = at.y]]

\* pointSources.map(ps => ps.id === id ? { ...ps, x, y } : ps)
MovedSources(sources, id, at) ==
  [i \in 1..Len(sources) |->
     IF sources[i].id = id
     THEN [sources[i] EXCEPT !.x = at.x, !.y = at.y]
     ELSE sources[i]]

\* pointSources.filter(ps => ps.id !== id)
RemainingSources(sources, id) ==
  SelectSeq(sources, LAMBDA ps : ps.id # id)

\* the list clearPointSources sets
ClearedSources == << >>

handleCanvasMouseMove ==
  /\ view = "2d" /\ ~effectPending /\ events < MaxEvents
  /\ draggedSourceId # -1
  /\ \E px \in ClickPixels :
       pointSources' = MovedSources(pointSources, draggedSourceId,
                                    canvasToFieldCoords(px[1], px[2]))
  /\ effectPending' = TRUE
  /\ events' = events + 1
  /\ UNCHANGED <<view, fx, fy, error, isAnimating, animationSpeed,
                 interactionMode, draggedSourceId, nextSourceId, particles,
                 animationFrame, rafQueue, rafNext, hasCleanup, display, vars3D,
                 ambient, last, varsH, varsF, tick>>

\* onMouseUp and onMouseLeave
handleCanvasMouseUp ==
  /\ events < MaxEvents
  /\ view = "2d"
  /\ draggedSourceId' = -1
  /\ events' = events + 1
  /\ UNCHANGED <<view, fx, fy, error, isAnimating, animationSpeed,
                 interactionMode, pointSources, nextSourceId, particles,
                 animationFrame, rafQueue, rafNext, effectPending, hasCleanup,
                 display, vars3D, ambient, last, varsH, varsF, tick>>

\* the remove button of one listed source
removePointSource ==
  /\ view = "2d" /\ ~effectPending /\ events < MaxEvents
  /\ \E k \in 1..Len(pointSources) :
       pointSources' = RemainingSources(pointSources, pointSources[k].id)
  /\ effectPending' = TRUE
  /\ events' = events + 1
  /\ UNCHANGED <<view, fx, fy, error, isAnimating, animationSpeed,
                 interactionMode, draggedSourceId, nextSourceId, particles,
                 animationFrame, rafQueue, rafNext, hasCleanup, display, vars3D,
                 ambient, last, varsH, varsF, tick>>

\* the clear button, rendered while the list is not empty
clearPointSources ==
  /\ view = "2d" /\ ~effectPending /\ events < MaxEvents
  /\ pointSources # <<>>
  /\ pointSources' = ClearedSources
  /\ effectPending' = TRUE
  /\ events' = events + 1
  /\ UNCHANGED <<view, fx, fy, error, isAnimating, animationSpeed,
                 interactionMode, draggedSourceId, nextSourceId, particles,
                 animationFrame, rafQueue, rafNext, hasCleanup, display, vars3D,
                 ambient, last, varsH, varsF, tick>>

\* Variant of newSources: the id read without the increment
newSources_SameId(src, first) ==
  [i \in 1..Len(src) |->
     [id |-> first, x |-> src[i].x, y |-> src[i].y,
      strength |-> src[i].strength, type |-> src[i].type]]

\* newSources of loadPhysicsPreset: preset.sources.map(s => ({...s,
\* id: nextSourceIdRef.current++})), first the value of the ref before the map
newSources(src, first) ==
  [i \in 1..Len(src) |->
     [id |-> first + i - 1, x |-> src[i].x, y |-> src[i].y,
      strength |-> src[i].strength, type |-> src[i].type]]

\* a physics preset button: the field becomes "0", "0" and the sources the
\* preset's, each with a fresh id
loadPhysicsPreset ==
  /\ view = "2d" /\ ~effectPending /\ events < MaxEvents
  /\ \E k \in 1..Len(physicsPresets) :
       LET src == physicsPresets[k]
       IN  /\ pointSources' = newSources(src, nextSourceId)
           /\ nextSourceId' = nextSourceId + Len(src)
  /\ fx' = <<"0">> /\ fy' = <<"0">>
  /\ effectPending' = TRUE
  /\ events' = events + 1
  /\ UNCHANGED <<view, error, isAnimating, animationSpeed, interactionMode,
                 draggedSourceId, particles, animationFrame, rafQueue, rafNext,
                 hasCleanup, display, vars3D, ambient, last, varsH, varsF, tick>>


\* ------------------------------------------------------- VectorField3D actions
FieldSources3D == { <<"x", "+">> }

\* fieldFn of ParticleSystem: useMemo over [fx, fy, fz]
Compiled3D ==
  <<createFieldFunction3D(fx3), createFieldFunction3D(fy3),
    createFieldFunction3D(fz3)>>

\* which particles the useFrame callback respawns
Respawns3D(f, delta) ==
  [i \in 1..Len(particles3) |->
     isAnimating3 /\ StepParticle3D(particles3[i], f, delta,
                                    animationSpeed3, <<0, 0, 0>>, ambient).respawned]

\* the init effect of ParticleSystem ([count, range])
InitParticles3D ==
  /\ events < MaxEvents
  /\ view = "3d" /\ initPending3
  /\ \E r \in [1..NumParticles -> RandomTriples \X LifeOutcomes] :
       particles3' =
         [i \in 1..NumParticles |->
            [x |-> RandomCoord(r[i][1][1], range3D),
             y |-> RandomCoord(r[i][1][2], range3D),
             z |-> RandomCoord(r[i][1][3], range3D), life |-> r[i][2]]]
  /\ initPending3' = FALSE
  /\ last' = NoPass
  /\ events' = events + 1
  /\ UNCHANGED <<view, vars2D, fx3, fy3, fz3, error3, isAnimating3,
                 animationSpeed3, showParticles, ambient, varsH, varsF, tick>>

\* the useFrame callback of ParticleSystem, called with the frame's delta
Frame3D ==
  /\ view = "3d" /\ showParticles /\ events < MaxEvents
  /\ \E delta \in Deltas, f \in {Compiled3D} :
       \E rs \in Draws(Len(particles3), Respawns3D(f, delta), RandomTriples,
                       <<0, 0, 0>>) :
         IF ~isAnimating3
         THEN /\ last' = [view |-> "3d", stepped |-> FALSE, dt |-> delta,
                          speed |-> animationSpeed3, steps |-> <<>>,
                          prev |-> Summary(last)]
              /\ UNCHANGED particles3
         ELSE \E steps \in {[i \in 1..Len(particles3) |->
                                StepParticle3D(particles3[i], f, delta,
                                               animationSpeed3, rs[i], ambient)]} :
                /\ particles3' = [i \in 1..Len(particles3) |-> steps[i].post]
                /\ last' = [view |-> "3d", stepped |-> TRUE, dt |-> delta,
                            speed |-> animationSpeed3, steps |-> steps,
                            prev |-> Summary(last)]
  /\ events' = events + 1
  /\ UNCHANGED <<view, vars2D, fx3, fy3, fz3, error3, isAnimating3,
                 animationSpeed3, showParticles, initPending3, ambient, varsH, varsF, tick>>

\* onChange of the Fx, Fy and Fz inputs
SetField3D ==
  /\ view = "3d" /\ events < MaxEvents
  /\ \E src \in FieldSources3D :
       \/ fx3' = src /\ UNCHANGED <<fy3, fz3>>
       \/ fy3' = src /\ UNCHANGED <<fx3, fz3>>
       \/ fz3' = src /\ UNCHANGED <<fx3, fy3>>
  /\ events' = events + 1
  /\ UNCHANGED <<view, vars2D, error3, isAnimating3, animationSpeed3,
                 showParticles, particles3, initPending3, ambient, last,
                 varsH, varsF, tick>>

ToggleAnimating3D ==
  /\ view = "3d" /\ events < MaxEvents
  /\ isAnimating3' = ~isAnimating3
  /\ events' = events + 1
  /\ UNCHANGED <<view, vars2D, fx3, fy3, fz3, error3, animationSpeed3,
                 showParticles, particles3, initPending3, ambient, last,
                 varsH, varsF, tick>>

SetAnimationSpeed3D ==
  /\ view = "3d" /\ events < MaxEvents
  /\ \E sp \in Speeds \ {animationSpeed3} : animationSpeed3' = sp
  /\ events' = events + 1
  /\ UNCHANGED <<view, vars2D, fx3, fy3, fz3, error3, isAnimating3,
                 showParticles, particles3, initPending3, ambient, last,
                 varsH, varsF, tick>>

\* the particles checkbox: ParticleSystem unmounts, or mounts with a new ref
ToggleShowParticles ==
  /\ view = "3d" /\ events < MaxEvents
  /\ showParticles' = ~showParticles
  /\ particles3' = <<>>
  /\ initPending3' = ~showParticles
  /\ last' = NoPass
  /\ events' = events + 1
  /\ UNCHANGED <<view, vars2D, fx3, fy3, fz3, error3, isAnimating3,
                 animationSpeed3, ambient, varsH, varsF, tick>>

\* ------------------------------------------------------------------ routing
\* a link of the navigation drawer: the other view mounts with its initial
\* state, the effect cleanup of the view that unmounts runs
Navigate ==
  /\ events < MaxEvents
  /\ view' = IF view = "2d" THEN "3d" ELSE "2d"
  /\ fx' = <<"-", "y">> /\ fy' = <<"x">>
  /\ error' = "null"
  /\ isAnimating' = TRUE /\ animationSpeed' = Scale
  /\ interactionMode' = "none" /\ pointSources' = <<>>
  /\ draggedSourceId' = -1
  /\ colorTheme' = "viridis" /\ isPulsingEnabled' = TRUE
  /\ nextSourceId' = 0
  /\ particles' = <<>>
  /\ animationFrame' = 0 /\ rafQueue' = AfterCleanup /\ rafNext' = 1
  /\ effectPending' = TRUE /\ hasCleanup' = FALSE
  /\ fx3' = <<"-", "y">> /\ fy3' = <<"x">> /\ fz3' = <<"0">>
  /\ error3' = "null"
  /\ isAnimating3' = TRUE /\ animationSpeed3' = Scale
  /\ showParticles' = TRUE
  /\ particles3' = <<>>
  /\ initPending3' = (view = "2d")
  /\ last' = NoPass
  /\ tick' = NoTick
  /\ events' = events + 1
  /\ UNCHANGED <<ambient, varsH, varsF>>

\* The events of the two views.
Next ==
  \/ RunEffect \/ Frame
  \/ SetFx \/ SetFy \/ ToggleAnimating \/ SetAnimationSpeed
  \/ SetInteractionMode \/ handleCanvasMouseDown \/ handleCanvasMouseMove
  \/ handleCanvasMouseUp
  \/ removePointSource \/ clearPointSources \/ loadPhysicsPreset
  \/ InitParticles3D \/ Frame3D \/ SetField3D \/ ToggleAnimating3D
  \/ SetAnimationSpeed3D \/ ToggleShowParticles
  \/ Navigate

Spec == Init /\ [][Next]_vars


\* ------------------------------------------------------------ compiler harness
\* createFieldFunction and createFieldFunction3D on their own: a caller
\* compiles a source and invokes the function it got.
ExprSources ==
  { <<"-", "y">>, <<"x", "/", "y">>, <<"Math", ".", "abs", "(", "x", ")">>,
    <<"x", "+">>, <<"(", "x">>, <<"x", "y">>,
    << >>, <<"q">>, <<"z">>, <<"Math">>, <<"Math", "+", "1">>,
    <<"Math", ".", "random", "(", ")">>,
    <<"globalThis", ".", "g", "=", "1">>, <<"g">>,
    <<"Math", ".", "abs", "=", "1">> }

\* arguments the caller passes
SampleArgs == {-2 * Scale, 0}

\* what evaluating the body gives before the closure's own checks; the
\* fallback () => 0 evaluates to 0
RawOutcome(f, args, amb, rnd) ==
  IF ~f.ok THEN ROk(Num(0), [env |-> << >>, amb |-> amb])
  ELSE Eval(f.node,
            [env |-> IF f.dim = 2
                     THEN [x |-> Num(args[1]), y |-> Num(args[2]),
                           Math |-> MathArg(amb)]
                     ELSE [x |-> Num(args[1]), y |-> Num(args[2]),
                           z |-> Num(args[3]), Math |-> MathArg(amb)],
             amb |-> amb], rnd)

Compile2D ==
  /\ view = "none"
  /\ \E src \in ExprSources :
       LET f == createFieldFunction(src)
       IN  /\ expression' = src
           /\ fieldFn' = [dim |-> 2, ok |-> f.ok, node |-> f.node, threw |-> f.threw]
  /\ call' = NoCall
  /\ prevCall' = NoCall
  /\ UNCHANGED <<view, vars2D, vars3D, ambient, events, last, varsF, tick>>

Compile3D ==
  /\ view = "none"
  /\ \E src \in ExprSources :
       LET f == createFieldFunction3D(src)
       IN  /\ expression' = src
           /\ fieldFn' = [dim |-> 3, ok |-> f.ok, node |-> f.node, threw |-> f.threw]
  /\ call' = NoCall
  /\ prevCall' = NoCall
  /\ UNCHANGED <<view, vars2D, vars3D, ambient, events, last, varsF, tick>>

Invoke2D ==
  /\ view = "none" /\ fieldFn.dim = 2 /\ ~fieldFn.threw
  /\ \E x \in SampleArgs, y \in SampleArgs, rnd \in RandomOutcomes :
       LET r == InvokeField(fieldFn, x, y, ambient, rnd)
       IN  /\ call' = [made |-> TRUE, dim |-> 2, args |-> <<x, y>>, rnd |-> rnd,
                       ret |-> r.ret, threw |-> r.threw, before |-> ambient,
                       raw |-> RawOutcome(fieldFn, <<x, y>>, ambient, rnd)]
           /\ ambient' = r.amb
  /\ prevCall' = NoCall
  /\ UNCHANGED <<view, vars2D, vars3D, events, last, expression, fieldFn, varsF, tick>>

Invoke3D ==
  /\ view = "none" /\ fieldFn.dim = 3 /\ ~fieldFn.threw
  /\ \E x \in SampleArgs, y \in SampleArgs, z \in SampleArgs, rnd \in RandomOutcomes :
       LET r == InvokeField3D(fieldFn, x, y, z, ambient, rnd)
       IN  /\ call' = [made |-> TRUE, dim |-> 3, args |-> <<x, y, z>>, rnd |-> rnd,
                       ret |-> r.ret, threw |-> r.threw, before |-> ambient,
                       raw |-> RawOutcome(fieldFn, <<x, y, z>>, ambient, rnd)]
           /\ ambient' = r.amb
  /\ prevCall' = NoCall
  /\ UNCHANGED <<view, vars2D, vars3D, events, last, expression, fieldFn, varsF, tick>>

\* the caller invokes the function again with the arguments of the call
\* before
Reinvoke2D ==
  /\ view = "none" /\ fieldFn.dim = 2 /\ ~fieldFn.threw
  /\ call.made /\ ~prevCall.made
  /\ \E rnd \in RandomOutcomes :
       LET r == InvokeField(fieldFn, call.args[1], call.args[2], ambient, rnd)
       IN  /\ call' = [made |-> TRUE, dim |-> 2, args |-> call.args, rnd |-> rnd,
                       ret |-> r.ret, threw |-> r.threw, before |-> ambient,
                       raw |-> RawOutcome(fieldFn, call.args, ambient, rnd)]
           /\ ambient' = r.amb
  /\ prevCall' = call
  /\ UNCHANGED <<view, vars2D, vars3D, events, last, expression, fieldFn, varsF, tick>>

Reinvoke3D ==
  /\ view = "none" /\ fieldFn.dim = 3 /\ ~fieldFn.threw
  /\ call.made /\ ~prevCall.made
  /\ \E rnd \in RandomOutcomes :
       LET r == InvokeField3D(fieldFn, call.args[1], call.args[2], call.args[3],
                              ambient, rnd)
       IN  /\ call' = [made |-> TRUE, dim |-> 3, args |-> call.args, rnd |-> rnd,
                       ret |-> r.ret, threw |-> r.threw, before |-> ambient,
                       raw |-> RawOutcome(fieldFn, call.args, ambient, rnd)]
           /\ ambient' = r.amb
  /\ prevCall' = call
  /\ UNCHANGED <<view, vars2D, vars3D, events, last, expression, fieldFn, varsF, tick>>

InitCompile ==
  /\ view = "none"
  /\ Mount2D
  /\ Idle3D
  /\ initPending3 = FALSE
  /\ ambient = AmbientInit
  /\ events = 0
  /\ last = NoPass
  /\ tick = NoTick
  /\ HarnessIdle
  /\ FieldIdle

NextCompile ==
  \/ Compile2D \/ Compile3D \/ Invoke2D \/ Invoke3D
  \/ Reinvoke2D \/ Reinvoke3D

SpecCompile == InitCompile /\ [][NextCompile]_vars


\* ------------------------------------------------------- the particle update
\* The loop bodies of animate and of the useFrame callback on their own: one
\* particle is updated, once, with a sampled vector given from outside, which
\* may hold the non-finite values the bodies test for.
SampledValues == {Num(-3 * Scale), Num(3 * Scale), NaN, PosInf}
\* lives of the particle updated
SampledLives == {5, 500, Scale}

UpdateOne2D ==
  /\ view = "none" /\ last = NoPass
  /\ \E r \in RandomPairs, life \in SampledLives,
        vx \in SampledValues, vy \in SampledValues,
        speed \in Speeds, rs \in RandomPairs :
       last' = [view |-> "2d", stepped |-> TRUE, dt |-> FMul(BaseDt, speed),
                speed |-> speed,
                steps |-> << UpdateParticle2D(
                               [x |-> RandomCoord(r[1], range),
                                y |-> RandomCoord(r[2], range), life |-> life],
                               vx, vy, speed, rs) >>,
                prev |-> NoSummary]
  /\ UNCHANGED <<view, vars2D, vars3D, ambient, events, varsH, varsF, tick>>

UpdateOne3D ==
  /\ view = "none" /\ last = NoPass
  /\ \E r \in RandomTriples, life \in SampledLives,
        vx \in SampledValues, vy \in SampledValues, vz \in SampledValues,
        delta \in Deltas, speed \in Speeds, rs \in RandomTriples :
       last' = [view |-> "3d", stepped |-> TRUE, dt |-> delta, speed |-> speed,
                steps |-> << UpdateParticle3D(
                               [x |-> RandomCoord(r[1], range3D),
                                y |-> RandomCoord(r[2], range3D),
                                z |-> RandomCoord(r[3], range3D), life |-> life],
                               vx, vy, vz, delta, speed, rs) >>,
                prev |-> NoSummary]
  /\ UNCHANGED <<view, vars2D, vars3D, ambient, events, varsH, varsF, tick>>

NextUpdate == UpdateOne2D \/ UpdateOne3D

SpecUpdate == InitCompile /\ [][NextUpdate]_vars


\* ----------------------------------------------------------- field harness
\* The closures Fx and Fy, the divergence grid build and the heat map of
\* animate on their own: a caller evaluates the combined field at a position,
\* builds the grid of a field, and draws it.
\* builds of the grid one run makes
MaxBuilds == 2

\* base fields: zero, the rotation, the radial field, a malformed component,
\* a general linear field, a quadratic one
ProbeFields ==
  { << <<"0">>, <<"0">> >>, << <<"-", "y">>, <<"x">> >>,
    << <<"x">>, <<"y">> >>, << <<"x", "+">>, <<"y">> >>,
    << <<"2", "*", "x", "+", "y">>, <<"x", "-", "y">> >>,
    << <<"x", "*", "x">>, <<"0">> >> }

\* point-source lists: none, the dipole and the quadrupole presets, one
\* source of the add-source mode at the origin
ProbeSourceSets ==
  { << >>, physicsPresets[1], physicsPresets[3],
    << [x |-> 0, y |-> 0, strength |-> 2 * Scale, type |-> "source"] >> }

\* coordinates of the positions evaluated: on sources, between them, on the
\* border of the domain
ProbeCoords == {-Scale, 0, Scale \div 2, Scale, range * Scale}

\* the fields and source lists whose grid is built: the linear fields of
\* ProbeFields and the quadratic one, without sources, with the dipole, with
\* one source on a grid point
GridFields ==
  { << <<"-", "y">>, <<"x">> >>, << <<"x">>, <<"y">> >>,
    << <<"2", "*", "x", "+", "y">>, <<"x", "-", "y">> >>,
    << <<"x", "*", "x">>, <<"0">> >> }
GridSourceSets ==
  { << >>, physicsPresets[1],
    << [x |-> 0, y |-> 0, strength |-> 2 * Scale, type |-> "source"] >> }

\* divergence values written to a grid from outside
SampledDivs == {Num(-2 * Scale), Num(Scale), NaN, PosInf}
\* the indices of such a grid
SampledCorners == {0, 100}

\* the closure of an effect run over the given expressions and sources
FieldClosure(fxSrc, fySrc, sources) ==
  [fx |-> fxSrc, fy |-> fySrc,
   baseFx |-> createFieldFunction(fxSrc), baseFy |-> createFieldFunction(fySrc),
   isAnimating |-> TRUE, animationSpeed |-> Scale, pointSources |-> sources]

\* the list with every strength multiplied by 2
DoubleStrength(sources) ==
  [i \in 1..Len(sources) |-> [sources[i] EXCEPT !.strength = 2 * @]]

\* Fx(x, y) and Fy(x, y) of one effect run, and of the run whose sources
\* have twice the strength
EvaluateField ==
  /\ view = "none" /\ probe = NoProbe /\ grid = NoGrid
  /\ \E f \in ProbeFields, S \in ProbeSourceSets, x \in ProbeCoords, y \in ProbeCoords :
       \E c \in {FieldClosure(f[1], f[2], S)},
          c2 \in {FieldClosure(f[1], f[2], DoubleStrength(S))} :
         probe' = [made |-> TRUE, fx |-> f[1], fy |-> f[2], sources |-> S,
                   x |-> x, y |-> y,
                   base |-> <<InvokeField(c.baseFx, x, y, ambient, 0).ret,
                              InvokeField(c.baseFy, x, y, ambient, 0).ret>>,
                   v |-> <<Fx(c, x, y, ambient), Fy(c, x, y, ambient)>>,
                   doubled |-> <<Fx(c2, x, y, ambient), Fy(c2, x, y, ambient)>>]
  /\ UNCHANGED <<view, vars2D, vars3D, ambient, events, last, varsH, grid, color, edit, tick>>

\* a grid record after a build: what was built, and the dimensions of the
\* build before it
Rebuilt(g, fxSrc, fySrc, sources) ==
  [g EXCEPT !.fx = fxSrc, !.fy = fySrc, !.sources = sources,
            !.builds = grid.builds + 1,
            !.prevRows = grid.rows, !.prevCols = grid.cols]

\* the build of the effect: Fx, Fy from the expressions and the sources, then
\* the loops over the grid.  The effect calls animate right after the build,
\* so a rebuild follows a draw.
BuildDivergenceGrid ==
  /\ view = "none" /\ probe = NoProbe /\ grid.builds < MaxBuilds
  /\ grid.built => grid.drawn
  /\ \E f \in GridFields, S \in GridSourceSets :
       \E c \in {FieldClosure(f[1], f[2], S)} : \E g \in {BuildGrid(c, ambient)} :
         grid' = Rebuilt([grid EXCEPT !.built = TRUE, !.rows = g.rows,
                                      !.cols = g.cols, !.cell = g.cell,
                                      !.minDiv = g.minDiv, !.maxDiv = g.maxDiv,
                                      !.drawn = FALSE, !.heat = << >>],
                         f[1], f[2], S)
  /\ UNCHANGED <<view, vars2D, vars3D, ambient, events, last, varsH, probe, color, edit, tick>>

\* the loops of the build over cells whose values are given from outside
ReduceSampled ==
  /\ view = "none" /\ probe = NoProbe /\ grid = NoGrid
  /\ \E cell \in [SampledCorners \X SampledCorners -> SampledDivs] :
       \E g \in {GridFrom(cell, SampledCorners)} :
         grid' = Rebuilt([grid EXCEPT !.built = TRUE, !.rows = g.rows,
                                      !.cols = g.cols, !.cell = g.cell,
                                      !.minDiv = g.minDiv, !.maxDiv = g.maxDiv],
                         <<>>, <<>>, <<>>)
  /\ UNCHANGED <<view, vars2D, vars3D, ambient, events, last, varsH, probe, color, edit, tick>>

\* the heat map loops of one call of animate
DrawHeatMap ==
  /\ view = "none" /\ grid.built /\ ~grid.drawn
  /\ grid' = [grid EXCEPT !.drawn = TRUE, !.heat = HeatMap(grid)]
  /\ UNCHANGED <<view, vars2D, vars3D, ambient, events, last, varsH, probe, color, edit, tick>>

NextField == EvaluateField \/ BuildDivergenceGrid \/ ReduceSampled \/ DrawHeatMap

SpecField == InitCompile /\ [][NextField]_vars


\* ------------------------------------------------------- animation loop
\* The effect and its frames under edits of the Fx input, the play button,
\* the display options and the route.  The expressions typed: one that does not compile, and one that
\* compiles and overwrites a member of the Math object the effect itself uses.
LoopSources == { <<"x", "+">>, <<"Math", ".", "min", "=", "1">> }

\* onChange of the Fx input
EditFx ==
  /\ view = "2d" /\ ~effectPending /\ events < MaxEvents
  /\ \E src \in LoopSources \ {fx} : fx' = src
  /\ effectPending' = TRUE
  /\ events' = events + 1
  /\ UNCHANGED <<view, fy, error, isAnimating, animationSpeed, interactionMode,
                 pointSources, draggedSourceId, nextSourceId, particles,
                 animationFrame, rafQueue, rafNext, hasCleanup, display, vars3D,
                 ambient, last, varsH, varsF, tick>>

InitLoop == Init /\ view = "2d"

NextLoop ==
  \/ RunEffect
  \/ Frame
  \/ EditFx
  \/ ToggleAnimating
  \/ SetColorTheme
  \/ ToggleIsPulsingEnabled
  \/ Navigate

SpecLoop == InitLoop /\ [][NextLoop]_vars


\* ------------------------------------------------------- source-list harness
\* The list operations of the pointer handlers on their own: a list the view
\* can hold, an id, and a field position.
\* the lists: none, one placed source, one placed sink, each physics preset
\* as loaded first (ids from 0) and the dipole as loaded second (ids from 2)
SampledLists ==
  { << >>,
    <<NewSource(0, [x |-> 0, y |-> 0], 2000, "source")>>,
    <<NewSource(3, [x |-> -1000, y |-> 0], -2000, "sink")>>,
    newSources(physicsPresets[1], 2) }
    \cup {newSources(physicsPresets[k], 0) : k \in 1..Len(physicsPresets)}

\* ids: of listed sources and of none
SampledIds == {0, 1, 3, 7}

\* positions: the field coordinates of the canvas positions
SampledPoints == {canvasToFieldCoords(px[1], px[2]) : px \in ClickPixels}

EditSources ==
  /\ view = "none" /\ ~edit.made
  /\ \E sources \in SampledLists, id \in SampledIds, at \in SampledPoints :
       \/ edit' = [made |-> TRUE, op |-> "move", before |-> sources,
                   id |-> id, at |-> at,
                   after |-> MovedSources(sources, id, at)]
       \/ edit' = [made |-> TRUE, op |-> "remove", before |-> sources,
                   id |-> id, at |-> at,
                   after |-> RemainingSources(sources, id)]
       \/ edit' = [made |-> TRUE, op |-> "clear", before |-> sources,
                   id |-> id, at |-> at, after |-> ClearedSources]
  /\ UNCHANGED <<view, vars2D, vars3D, ambient, events, last, varsH, probe,
                 grid, color, tick>>

NextSources == EditSources

SpecSources == InitCompile /\ [][NextSources]_vars


\* ------------------------------------------------------------ color harness
\* getColor on its own: a caller maps a value under a theme.
\* values of t: a sweep over [0, 1] and beyond both ends, values next to the
\* ends and between anchors, the values of the scale bar next to its ends,
\* and the non-finite numbers
SampledT ==
  {Num(k * 50) : k \in -2..22}
    \cup {Num(1), Num(5), Num(333), Num(995), Num(999), NaN, PosInf, NegInf}

MapColor ==
  /\ view = "none" /\ color = NoColor
  /\ \E t \in SampledT, theme \in DOMAIN colorMaps :
       color' = [made |-> TRUE, t |-> t, theme |-> theme,
                 out |-> getColor(t, theme)]
  /\ UNCHANGED <<view, vars2D, vars3D, ambient, events, last, varsH, probe,
                 grid, edit, tick>>

NextColor == MapColor

SpecColor == InitCompile /\ [][NextColor]_vars


\* ================================================================ properties
InRange(coord, rng) == -(rng * Scale) <= coord /\ coord <= rng * Scale

\* the range of the view a pass belongs to
RangeOf(pass) == IF pass.view = "2d" THEN range ELSE range3D

\* the recorded step of a particle was reset for its position, not its life
LeftBounds(st, rng) == \E k \in 1..Len(st.adv) : Abs(st.adv[k]) > rng * Scale

\* C1: in every state, every coordinate of every particle of the 2D and of
\* the 3D ensemble lies in [-range, range], whatever steps, field changes and
\* point-source changes came before.
C1_PositionsInRange ==
  /\ \A i \in 1..Len(particles) :
       InRange(particles[i].x, range) /\ InRange(particles[i].y, range)
  /\ \A i \in 1..Len(particles3) :
       /\ InRange(particles3[i].x, range3D)
       /\ InRange(particles3[i].y, range3D)
       /\ InRange(particles3[i].z, range3D)

\* a 2D step under point sources carried a particle out of the range and the
\* particle was reset
C1_Witness ==
  /\ last.view = "2d" /\ last.stepped /\ pointSources # <<>>
  /\ \E i \in 1..Len(last.steps) :
       /\ LeftBounds(last.steps[i], range)
       /\ last.steps[i].respawned
       /\ particles[i] = last.steps[i].post

\* C2: in every step a particle is respawned exactly when, after the advance
\* and the decrement, its life is <= 0 or a coordinate exceeds range in
\* absolute value; a respawn puts every coordinate in [-range, range] and sets
\* life to exactly 1; no other particle is respawned.
C2_RespawnExactly ==
  last.stepped =>
    \A i \in 1..Len(last.steps) :
      LET st  == last.steps[i]
          rng == RangeOf(last)
      IN  /\ st.respawned <=> (st.life1 <= 0 \/ LeftBounds(st, rng))
          /\ st.respawned =>
               /\ st.post.life = Scale
               /\ InRange(st.post.x, rng) /\ InRange(st.post.y, rng)
               /\ last.view = "3d" => InRange(st.post.z, rng)
          /\ ~st.respawned =>
               /\ st.post.life = st.life1
               /\ st.post.x = st.adv[1] /\ st.post.y = st.adv[2]
               /\ last.view = "3d" => st.post.z = st.adv[3]

\* a particle inside the range was reset because its life reached exactly 0
C2_Witness ==
  /\ last.stepped
  /\ \E i \in 1..Len(last.steps) :
       LET st == last.steps[i]
       IN  st.respawned /\ st.life1 = 0 /\ ~LeftBounds(st, RangeOf(last))

\* C3 as stated: in every state every particle's life is in (0, 1].
C3_LifeInHalfOpen ==
  /\ \A i \in 1..Len(particles) :
       0 < particles[i].life /\ particles[i].life <= Scale
  /\ \A i \in 1..Len(particles3) :
       0 < particles3[i].life /\ particles3[i].life <= Scale

\* C3: in every state every particle's life is in [0, 1]; it is in (0, 1] for
\* every particle of the 2D ensemble, and for every particle of the 3D
\* ensemble once a frame has stepped the ensemble.  The 3D init effect leaves
\* life = Math.random(), which may be 0, until the first stepping frame.
C3_LifeBounds ==
  /\ \A i \in 1..Len(particles) :
       0 < particles[i].life /\ particles[i].life <= Scale
  /\ \A i \in 1..Len(particles3) :
       /\ 0 <= particles3[i].life /\ particles3[i].life <= Scale
       /\ (last.view = "3d" /\ last.stepped) => 0 < particles3[i].life

\* the 3D ensemble right after its init effect, a particle with life 0
C3_Witness ==
  /\ view = "3d" /\ ~initPending3 /\ last = NoPass
  /\ \E i \in 1..Len(particles3) : particles3[i].life = 0

\* C4 as stated: life is exactly 1 after a reset, and every step that does
\* not respawn a particle leaves its life strictly smaller than before.
C4_StrictlyDecreasing ==
  last.stepped =>
    \A i \in 1..Len(last.steps) :
      LET st == last.steps[i]
      IN  /\ st.respawned => st.post.life = Scale
          /\ ~st.respawned => st.post.life < st.prelife

\* C4: life is exactly 1 after a reset; a step that does not respawn a
\* particle never increases its life, and leaves it strictly smaller in the 2D
\* view and in the 3D view when the frame's delta is positive (a 3D frame
\* with delta = 0 leaves life unchanged).
C4_LifeNeverIncreases ==
  last.stepped =>
    \A i \in 1..Len(last.steps) :
      LET st == last.steps[i]
      IN  /\ st.respawned => st.post.life = Scale
          /\ ~st.respawned =>
               /\ st.post.life <= st.prelife
               /\ (last.view = "2d" \/ last.dt > 0) => st.post.life < st.prelife

\* a particle that was reset to 1 and stepped once is stepped again without a
\* respawn: its life goes down a second time
C4_Witness ==
  /\ last.stepped /\ last.prev.stepped
  /\ \E i \in 1..Len(last.steps) :
       LET st == last.steps[i]
       IN  /\ ~st.respawned
           /\ st.prelife < Scale /\ st.prelife > Scale \div 2
           /\ st.post.life < st.prelife

\* C5 as stated: the decrement is a fixed rate times the speed multiplier and
\* does not depend on the time step: two consecutive stepping passes at the
\* same speed subtract the same amount.
C5_DecayIndependentOfDt ==
  (last.stepped /\ last.prev.stepped /\ last.prev.speed = last.speed) =>
    \A i \in 1..Len(last.steps) :
      last.steps[i].prelife - last.steps[i].life1 = last.prev.decay

\* C5: a 2D step subtracts 0.005 * animationSpeed from life, whatever dt is;
\* a 3D step subtracts delta * 0.3 * speed, proportional to the frame's delta.
C5_DecayPerView ==
  last.stepped =>
    \A i \in 1..Len(last.steps) :
      LET st == last.steps[i]
      IN  st.prelife - st.life1 =
            IF last.view = "2d" THEN FMul(5, last.speed)
            ELSE FMul(FMul(last.dt, 300), last.speed)

\* two consecutive 3D frames at the same speed with different deltas
C5_Witness ==
  /\ last.view = "3d" /\ last.stepped /\ last.prev.stepped
  /\ last.prev.speed = last.speed /\ last.prev.dt # last.dt
  /\ \E i \in 1..Len(last.steps) :
       last.steps[i].prelife - last.steps[i].life1 # last.prev.decay

\* the velocity components a step sampled are all finite numbers
AllFinite(st) == \A k \in 1..Len(st.v) : st.v[k].k = "num"

\* C6: a step advances the position by velocity * dt * speed (2D: dt = 0.016,
\* 3D: dt = the frame's delta) exactly when every velocity component is
\* finite, and leaves it unchanged otherwise; the life decrement and the
\* respawn test are applied in both cases.
C6_EulerStep ==
  last.stepped =>
    \A i \in 1..Len(last.steps) :
      LET st == last.steps[i]
      IN  /\ st.moved <=> AllFinite(st)
          /\ \A k \in 1..Len(st.adv) :
               st.adv[k] =
                 IF ~AllFinite(st) THEN st.pre[k]
                 ELSE IF last.view = "2d"
                      THEN st.pre[k] + FMul(st.v[k].n, FMul(16, last.speed))
                      ELSE st.pre[k] + FMul(FMul(st.v[k].n, last.dt), last.speed)
          /\ st.life1 = st.prelife -
               (IF last.view = "2d" THEN FMul(5, last.speed)
                ELSE FMul(FMul(last.dt, 300), last.speed))
          /\ st.respawned <=> (st.life1 <= 0 \/ LeftBounds(st, RangeOf(last)))

\* a step that sampled a non-finite component left the position where it
\* was, took the decrement from life and respawned the particle for its life
C6_Witness ==
  /\ last.stepped
  /\ \E i \in 1..Len(last.steps) :
       LET st == last.steps[i]
       IN  /\ ~AllFinite(st) /\ ~st.moved
           /\ st.adv = st.pre
           /\ st.life1 = 0 /\ st.prelife = 5
           /\ st.respawned /\ st.post.life = Scale

\* the source last compiled does not parse as the body "return <source>;"
Malformed == fieldFn.dim # 0 /\ ~ParseBody(expression).ok

\* C7: for a malformed source, neither compiling nor any later invocation
\* lets an exception reach the caller, and every invocation returns 0.
C7_MalformedYieldsZero ==
  Malformed =>
    /\ ~fieldFn.threw
    /\ call.made => (~call.threw /\ call.ret = Num(0))

\* the function compiled from "x +" was invoked with x = -2 and gave 0
C7_Witness ==
  /\ expression = <<"x", "+">> /\ ~fieldFn.threw
  /\ call.made /\ call.args[1] = -2 * Scale
  /\ call.ret = Num(0) /\ ~call.threw

\* C8: after the effect ran with a malformed expression in fx or fy, the
\* displayed error is non-null.
C8_ErrorDisplayed ==
  (view = "2d" /\ ~effectPending
     /\ (~ParseBody(fx).ok \/ ~ParseBody(fy).ok)) => error # "null"

\* C9: an invocation returns the value of the expression when that value is
\* a finite number, and 0 when it is NaN, an infinity, not a number, or when
\* evaluating threw; nothing is thrown to the caller.
C9_FiniteResult ==
  call.made =>
    /\ ~call.threw
    /\ call.ret.k = "num"
    /\ call.ret = IF ~call.raw.thrown /\ call.raw.v.k = "num"
                  THEN call.raw.v ELSE Num(0)

\* an invocation whose expression evaluated to an infinity returned 0
C9_Witness ==
  /\ call.made /\ ~call.raw.thrown
  /\ call.raw.v.k \in {"inf", "ninf"}
  /\ call.ret = Num(0)

\* C10: an invocation of a compiled expression leaves the ambient state (the
\* global object and the Math namespace) as it was before the call.
C10_NoAmbientEffect == call.made => ambient = call.before

\* C11: two invocations of one compiled function with the same arguments
\* return the same value.
C11_Deterministic ==
  (call.made /\ prevCall.made) =>
    (call.dim = prevCall.dim /\ call.args = prevCall.args
       /\ call.ret = prevCall.ret)

\* the term of the combination rule for one source and one component:
\* strength * (position - source position) / (squared distance + 0.01)
RuleTerm(ps, x, y, axis) ==
  LET dx == x - ps.x
      dy == y - ps.y
  IN  FDiv(FMul(ps.strength, IF axis = "x" THEN dx ELSE dy),
           FMul(dx, dx) + FMul(dy, dy) + Scale \div 100)

\* the sum of the rule's terms over the sources from index k on
RECURSIVE RuleSum(_, _, _, _, _)
RuleSum(sources, k, x, y, axis) ==
  IF k > Len(sources) THEN 0
  ELSE RuleTerm(sources[k], x, y, axis) + RuleSum(sources, k + 1, x, y, axis)

\* C12: each effective field component is the base component at the position
\* plus the sum over the sources of strength * (position - source position) /
\* (squared distance + 0.01); with no sources it is the base component; at the
\* position of a source it is finite and that source contributes 0.
C12_CombinationRule ==
  probe.made =>
    /\ probe.v[1] = Num(probe.base[1].n
                        + RuleSum(probe.sources, 1, probe.x, probe.y, "x"))
    /\ probe.v[2] = Num(probe.base[2].n
                        + RuleSum(probe.sources, 1, probe.x, probe.y, "y"))
    /\ probe.sources = << >> => probe.v = probe.base
    /\ \A i \in 1..Len(probe.sources) :
         (probe.sources[i].x = probe.x /\ probe.sources[i].y = probe.y) =>
           /\ IsFiniteVal(probe.v[1]) /\ IsFiniteVal(probe.v[2])
           /\ RuleTerm(probe.sources[i], probe.x, probe.y, "x") = 0
           /\ RuleTerm(probe.sources[i], probe.x, probe.y, "y") = 0

\* the field x, y with the dipole, evaluated on the source at (-1, 0): the
\* base gives (-1, 0), the source at that position nothing, the sink 6 / 4.01
C12_Witness ==
  /\ probe.made
  /\ probe.fx = <<"x">> /\ probe.fy = <<"y">>
  /\ probe.sources = physicsPresets[1]
  /\ probe.x = -Scale /\ probe.y = 0
  /\ probe.base = <<Num(-Scale), Num(0)>>
  /\ probe.v = <<Num(-Scale + 1496), Num(0)>>

\* the difference between a component of b and twice that of a, in units of
\* 1 / Scale
DoublingGap(a, b, k) == Abs(b[k].n - 2 * a[k].n)

\* C13: over a zero base field the dipole gives a finite non-zero vector at
\* the origin, and doubling every strength doubles the vector at every
\* position.  A fixed-point quotient is rounded to 1 / Scale, so twice the
\* vector and the vector of the doubled strengths agree to one unit for each
\* source term; scaling by 2 is exact in binary floating point.
C13_DipoleAndDoubling ==
  (probe.made /\ probe.fx = <<"0">> /\ probe.fy = <<"0">>) =>
    /\ IsFiniteVal(probe.v[1]) /\ IsFiniteVal(probe.v[2])
    /\ IsFiniteVal(probe.doubled[1]) /\ IsFiniteVal(probe.doubled[2])
    /\ DoublingGap(probe.v, probe.doubled, 1) <= Len(probe.sources)
    /\ DoublingGap(probe.v, probe.doubled, 2) <= Len(probe.sources)
    /\ (probe.sources = physicsPresets[1] /\ probe.x = 0 /\ probe.y = 0) =>
         probe.v # <<Num(0), Num(0)>>

\* the dipole at the origin: both terms are 3 / 1.01 along x, none along y
C13_Witness ==
  /\ probe.made /\ probe.fx = <<"0">> /\ probe.fy = <<"0">>
  /\ probe.sources = physicsPresets[1] /\ probe.x = 0 /\ probe.y = 0
  /\ probe.v = <<Num(5940), Num(0)>>
  /\ probe.doubled[1].n \in {11880, 11881, 11882}

\* the linear components among GridFields: a of Fx = a*x + b*y and d of
\* Fy = c*x + d*y
IsLinearField(fxSrc, fySrc) ==
  /\ fxSrc \in { <<"-", "y">>, <<"x">>, <<"2", "*", "x", "+", "y">> }
  /\ fySrc \in { <<"x">>, <<"y">>, <<"x", "-", "y">> }

CoeffOfX(fxSrc) ==
  CASE fxSrc = <<"-", "y">> -> 0
    [] fxSrc = <<"x">> -> 1
    [] OTHER -> 2

CoeffOfY(fySrc) ==
  CASE fySrc = <<"x">> -> 0
    [] fySrc = <<"y">> -> 1
    [] OTHER -> -1

\* C14: for a linear base field Fx = a*x + b*y, Fy = c*x + d*y without point
\* sources, every cell of the divergence grid holds a + d: 0 for the rotation
\* -y, x and 2 for the radial field x, y.
C14_LinearDivergence ==
  (grid.built /\ grid.sources = << >> /\ IsLinearField(grid.fx, grid.fy)) =>
    \A p \in DOMAIN grid.cell :
      grid.cell[p] = Num((CoeffOfX(grid.fx) + CoeffOfY(grid.fy)) * Scale)

\* the grid of the radial field: 2 at the corners and on the last row and
\* column the build writes
C14_Witness ==
  /\ grid.built /\ grid.sources = << >>
  /\ grid.fx = <<"x">> /\ grid.fy = <<"y">>
  /\ grid.cell[<<0, 0>>] = Num(2 * Scale)
  /\ grid.cell[<<100, 100>>] = Num(2 * Scale)

\* the finite values among the cells of the grid
FiniteCells == {grid.cell[p] : p \in {q \in DOMAIN grid.cell : IsFiniteVal(grid.cell[q])}}

\* C15: after a build every cell the loops visited holds its divergence value,
\* finite or not, and minDiv and maxDiv are the least and the greatest of the
\* finite cells: both are finite cell values when there is one, every finite
\* cell lies between them, and without a finite cell they keep the values
\* Infinity and -Infinity the build starts from.
C15_MinMaxOverFiniteCells ==
  grid.built =>
    /\ \E idx \in {SampledIndices, SampledCorners} : DOMAIN grid.cell = idx \X idx
    /\ grid.fx # << >> =>
         \A p \in DOMAIN grid.cell :
           grid.cell[p] = Divergence(FieldClosure(grid.fx, grid.fy, grid.sources),
                                     p[1], p[2], ambient)
    /\ IF FiniteCells = {}
       THEN grid.minDiv = PosInf /\ grid.maxDiv = NegInf
       ELSE /\ grid.minDiv \in FiniteCells /\ grid.maxDiv \in FiniteCells
            /\ \A v \in FiniteCells : grid.minDiv.n <= v.n /\ v.n <= grid.maxDiv.n

\* a grid that holds NaN, Infinity and two different finite values: the
\* non-finite cells are in the grid, minDiv and maxDiv are the finite ones
C15_Witness ==
  /\ grid.built
  /\ DOMAIN grid.cell = SampledCorners \X SampledCorners
  /\ grid.cell[<<0, 0>>] = NaN /\ grid.cell[<<0, 100>>] = PosInf
  /\ grid.cell[<<100, 0>>] = Num(Scale) /\ grid.cell[<<100, 100>>] = Num(-2 * Scale)
  /\ grid.minDiv = Num(-2 * Scale) /\ grid.maxDiv = Num(Scale)

\* the cells the heat map read and did not skip
DrawnCells == {p \in DOMAIN grid.heat : grid.heat[p] # Absent}

\* C16: when maxDiv equals minDiv the heat map normalises every finite cell to
\* exactly 0.5 without dividing; otherwise the normalised value of a finite
\* cell is (div - minDiv) / (maxDiv - minDiv) and lies in [0, 1].  A
\* non-finite cell is skipped.
C16_Normalization ==
  grid.drawn =>
    /\ DrawnCells = {p \in DOMAIN grid.heat : IsFiniteVal(grid.cell[p])}
    /\ \A p \in DrawnCells :
         /\ IsFiniteVal(grid.heat[p])
         /\ IF grid.maxDiv = grid.minDiv
            THEN grid.heat[p] = Num(Scale \div 2)
            ELSE /\ grid.heat[p].n =
                      RoundDiv((grid.cell[p].n - grid.minDiv.n) * Scale,
                               grid.maxDiv.n - grid.minDiv.n)
                 /\ 0 <= grid.heat[p].n /\ grid.heat[p].n <= Scale

\* the heat map of the radial field x, y: every cell is 2, maxDiv equals
\* minDiv, every cell read is drawn at 0.5
C16_Witness ==
  /\ grid.drawn
  /\ grid.fx = <<"x">> /\ grid.fy = <<"y">> /\ grid.sources = << >>
  /\ grid.minDiv = Num(2 * Scale) /\ grid.maxDiv = Num(2 * Scale)
  /\ DOMAIN grid.heat = {0, 99} \X {0, 99}
  /\ \A p \in DOMAIN grid.heat : grid.heat[p] = Num(Scale \div 2)

\* C17: the build computes 100 rows of 100 cells, on every build.
C17_Grid100x100 ==
  grid.built =>
    /\ grid.rows = 100 /\ grid.cols = 100
    /\ grid.builds > 1 => (grid.prevRows = grid.rows /\ grid.prevCols = grid.cols)

\* C18: a call of animate reads a grid whose every cell it reads was written
\* by the build, and the grid it reads was built from the expressions and the
\* point sources the component holds when it runs: after a change of fx, fy
\* or the sources the rebuild comes before the next call of animate.
C18_RebuiltBeforeNextTick ==
  tick.ran => (tick.cellsBuilt /\ tick.fresh)

\* the ids of a source list
IdsOf(sources) == {sources[i].id : i \in 1..Len(sources)}

\* C19: in one call of animate the field that advances the particles, the
\* static arrows, the grid drawn and the markers come from one point-source
\* list, and a step that changes the list of the component (add, move,
\* remove, clear, preset load) leaves the list every requested frame and the
\* latest call of animate hold as it was.
C19_OneSnapshotPerTick ==
  [][ /\ tick'.ran =>
           /\ tick'.particles = tick'.grid
           /\ tick'.arrows = tick'.grid
           /\ tick'.markers = tick'.grid
      /\ (view' = view /\ pointSources' # pointSources) =>
           (rafQueue' = rafQueue /\ tick' = tick) ]_vars

\* a frame requested before the clear button was pressed has run after it:
\* every part of it worked from the dipole, the component holds no source
C19_Witness ==
  /\ tick.ran /\ pointSources = << >>
  /\ Len(tick.grid) = 2 /\ tick.grid[1].x = -Scale
  /\ tick.markers = tick.grid /\ tick.particles = tick.grid
  /\ tick.arrows = tick.grid

\* C20: while VectorField2D is mounted no two sources of the list share an
\* id, every id in the list was handed out (it is below nextSourceIdRef), the
\* ref never decreases, and a source that enters the list, or a list that
\* replaces it, carries ids the ref had not handed out before.
C20_UniqueMonotonicIds ==
  [][ /\ Cardinality(IdsOf(pointSources')) = Len(pointSources')
      /\ \A id \in IdsOf(pointSources') : id < nextSourceId'
      /\ view' = view =>
           /\ nextSourceId' >= nextSourceId
           /\ \A id \in IdsOf(pointSources') \ IdsOf(pointSources) :
                id >= nextSourceId ]_vars

\* the dipole was loaded and then the quadrupole: the list was replaced, the
\* ids 0 and 1 are not handed out again, the list holds 2, 3, 4, 5
C20_Witness ==
  /\ view = "2d" /\ nextSourceId = 6
  /\ IdsOf(pointSources) = {2, 3, 4, 5}

\* the anchors of the theme of the latest call
AnchorsOf(c) == colorMaps[c.theme]

\* C21: for t in [0, 1] getColor returns three channels in [0, 255]; t = 0
\* gives the first anchor and t = 1 the last; t below 0 gives the first and t
\* above 1 the last; every read of the anchors is at an index of the array.
C21_ColorInRange ==
  (color.made /\ color.t.k \in {"num", "inf", "ninf"}) =>
    /\ ~color.out.threw
    /\ Len(color.out.rgb) = 3
    /\ \A k \in 1..3 : color.out.rgb[k] \in 0..255
    /\ \A i \in color.out.reads :
         i.k = "num" /\ i.n \in 0..(Len(AnchorsOf(color)) - 1)
    /\ (color.t.k = "ninf" \/ (color.t.k = "num" /\ color.t.n <= 0)) =>
         color.out.rgb = AnchorsOf(color)[1]
    /\ (color.t.k = "inf" \/ (color.t.k = "num" /\ color.t.n >= Scale)) =>
         color.out.rgb = AnchorsOf(color)[Len(AnchorsOf(color))]

\* t = 1 under plasma: the last anchor, read at index 8 only
C21_Witness ==
  /\ color.made /\ color.t = Num(Scale) /\ color.theme = "plasma"
  /\ color.out.rgb = <<240, 249, 33>>
  /\ color.out.reads = {Num(8)}

\* C22: getColor returns a color for every number t, NaN and the infinities
\* included, and every theme.
C22_ColorTotal ==
  color.made => (~color.out.threw /\ Len(color.out.rgb) = 3)

\* C23: no error halts the loop: while the 2D view is mounted and its effect
\* has run, a next tick is scheduled, also after an effect run that reported
\* an error.
C23_NextTickScheduled ==
  (view = "2d" /\ ~effectPending) => rafQueue # {}

\* the particles a pass started from are the particles parts
StartedFrom(pass, parts, dims) ==
  /\ Len(pass.steps) = Len(parts)
  /\ \A i \in 1..Len(parts) :
       /\ pass.steps[i].prelife = parts[i].life
       /\ pass.steps[i].pre = IF dims = 2 THEN <<parts[i].x, parts[i].y>>
                              ELSE <<parts[i].x, parts[i].y, parts[i].z>>

\* C24: a tick that reads isAnimating = false leaves every particle's position
\* and life as they were, in 2D (a frame of a paused closure, an effect run
\* while paused) and in 3D (any step of the mounted particle system while
\* paused); the play button leaves
\* the particles alone and the first stepping tick after it starts from them.
C24_PausedParticlesKept ==
  [][/\ (/\ view = "2d" /\ view' = "2d" /\ rafNext' # rafNext
         /\ effectPending' = effectPending
         /\ \A cb \in rafQueue : ~cb.c.isAnimating)
          => particles' = particles
     /\ (/\ view = "2d" /\ view' = "2d" /\ effectPending /\ ~effectPending'
         /\ ~isAnimating /\ particles # <<>>)
          => particles' = particles
     /\ (view = "2d" /\ isAnimating' # isAnimating /\ view' = view)
          => particles' = particles
     /\ (/\ view = "2d" /\ view' = "2d" /\ rafNext' # rafNext /\ last'.stepped
         /\ particles # <<>>)
          => StartedFrom(last', particles, 2)
     /\ (/\ view = "3d" /\ view' = "3d" /\ showParticles /\ showParticles'
         /\ ~isAnimating3 /\ ~initPending3)
          => particles3' = particles3
     /\ (view = "3d" /\ isAnimating3' # isAnimating3 /\ view' = view)
          => particles3' = particles3
     /\ (/\ view = "3d" /\ view' = "3d" /\ showParticles /\ showParticles'
         /\ particles3' # particles3 /\ ~initPending3)
          => (last'.stepped /\ StartedFrom(last', particles3, 3))]_vars

\* play was turned on again after a paused tick: the pass before the latest
\* stepping pass did not step
C24_Witness ==
  /\ view = "2d" /\ isAnimating /\ ~effectPending
  /\ last.view = "2d" /\ last.stepped
  /\ ~last.prev.stepped /\ last.prev.speed > 0

\* C25: a move to p of id changes x and y of the sources with that id to p
\* and nothing else; a remove of id deletes exactly the sources with that id
\* and keeps the others in order; both leave the list as it was when no
\* source has that id; clear leaves the list empty.
C25_ListEditsExact ==
  edit.made =>
    /\ edit.op = "move" =>
         /\ Len(edit.after) = Len(edit.before)
         /\ \A i \in 1..Len(edit.before) :
              /\ edit.after[i].id = edit.before[i].id
              /\ edit.after[i].strength = edit.before[i].strength
              /\ edit.after[i].type = edit.before[i].type
              /\ edit.before[i].id = edit.id =>
                   (edit.after[i].x = edit.at.x /\ edit.after[i].y = edit.at.y)
              /\ edit.before[i].id # edit.id => edit.after[i] = edit.before[i]
    /\ edit.op = "remove" =>
         /\ edit.after = SelectSeq(edit.before, LAMBDA ps : ps.id # edit.id)
         /\ \A i \in 1..Len(edit.after) : edit.after[i].id # edit.id
         /\ Len(edit.after) =
              Len(edit.before)
                - Cardinality({i \in 1..Len(edit.before) :
                                 edit.before[i].id = edit.id})
    /\ (edit.op \in {"move", "remove"}
          /\ \A i \in 1..Len(edit.before) : edit.before[i].id # edit.id)
         => edit.after = edit.before
    /\ edit.op = "clear" => edit.after = << >>

\* the sink of the quadrupole with id 1 moved to the origin, the other three
\* sources in place
C25_Witness ==
  /\ edit.made /\ edit.op = "move" /\ edit.id = 1
  /\ edit.before = newSources(physicsPresets[3], 0)
  /\ edit.at = [x |-> 0, y |-> 0]
  /\ edit.after[2] = [id |-> 1, x |-> 0, y |-> 0, strength |-> -2000,
                      type |-> "sink"]
  /\ \A i \in {1, 3, 4} : edit.after[i] = edit.before[i]

\* the configuration closure c was made from is the one the view holds
Current(c) ==
  /\ c.fx = fx /\ c.fy = fy
  /\ c.isAnimating = isAnimating /\ c.animationSpeed = animationSpeed
  /\ c.pointSources = pointSources
  /\ c.colorTheme = colorTheme /\ c.isPulsingEnabled = isPulsingEnabled

\* C26: once the cleanup of the effect has run, no tick of the loop it
\* cancelled can run: with the view unmounted no callback is requested, after
\* an effect re-run every requested callback is of the closure of the
\* configuration the view holds, and a requested callback is always the one
\* the next cleanup cancels.
C26_NoSupersededTick ==
  /\ view = "3d" => rafQueue = {}
  /\ (view = "2d" /\ ~effectPending) => \A cb \in rafQueue : Current(cb.c)
  /\ \A cb \in rafQueue : cb.id = animationFrame

\* the Fx input was edited, the effect re-ran and a frame of the new loop
\* ran: the callback requested is the third, of the closure of the new field
C26_Witness ==
  /\ view = "2d" /\ ~effectPending /\ fx = <<"x", "+">>
  /\ animationFrame >= 3
  /\ \E cb \in rafQueue : cb.id = animationFrame /\ cb.c.fx = <<"x", "+">>
  /\ tick.ran /\ tick.fx = <<"x", "+">>

\* C28: at most one animation loop is live in the 2D view: never more than
\* one callback is requested, and once the loop has started the particles are
\* stepped only by the callback of an animation frame, once per frame.
C28_OneLoopOneStepPerFrame ==
  [][/\ Cardinality(rafQueue') <= 1
     /\ (/\ view = "2d" /\ view' = "2d" /\ particles # <<>>
         /\ rafNext' # rafNext /\ last'.stepped)
          => effectPending' = effectPending]_vars

\* C27: in every reachable state the sign of each point source's strength
\* agrees with its kind: positive for a source, negative for a sink.
C27_SignMatchesKind ==
  \A i \in 1..Len(pointSources) :
    /\ pointSources[i].type \in {"source", "sink"}
    /\ pointSources[i].type = "source" => pointSources[i].strength > 0
    /\ pointSources[i].type = "sink" => pointSources[i].strength < 0

\* a source and a sink, both placed by clicks on the canvas row y = 0
C27_Witness ==
  /\ Len(pointSources) = 2
  /\ \E i, j \in 1..2 :
       /\ pointSources[i].type = "source" /\ pointSources[i].strength = 2000
       /\ pointSources[j].type = "sink" /\ pointSources[j].strength = -2000
       /\ pointSources[i].y = 0 /\ pointSources[j].y = 0

\* the step places a source: one id is taken and the list grows
Places ==
  /\ view = "2d" /\ view' = "2d"
  /\ nextSourceId' = nextSourceId + 1
  /\ Len(pointSources') = Len(pointSources) + 1

\* C29: a mouse-down in 'add-source' or 'add-sink' appends exactly one source,
\* of strength 2.0 and kind source or of strength -2.0 and kind sink, at the
\* clicked field position, keeps the sources listed before it, and sets the
\* mode to 'none'; no source is placed from any other mode, so a second
\* mouse-down places nothing and a mouse-down in mode 'none' changes neither
\* the list nor the mode.
C29_AddIsOneShot ==
  [][/\ Places =>
          /\ interactionMode \in {"add-source", "add-sink"}
          /\ interactionMode' = "none"
          /\ SubSeq(pointSources', 1, Len(pointSources)) = pointSources
          /\ \E at \in SampledPoints :
               pointSources'[Len(pointSources')] =
                 [id |-> nextSourceId, x |-> at.x, y |-> at.y,
                  strength |-> IF interactionMode = "add-source"
                               THEN 2000 ELSE -2000,
                  type |-> IF interactionMode = "add-source"
                           THEN "source" ELSE "sink"]
     /\ (view = "2d" /\ view' = "2d" /\ interactionMode = "none")
          => (nextSourceId' = nextSourceId
                => (Len(pointSources') <= Len(pointSources)
                      /\ (interactionMode' # "none"
                            => pointSources' = pointSources)))]_vars

\* a sink placed after a source: the source is still first, the mode is
\* 'none' again
C29_Witness ==
  /\ view = "2d" /\ interactionMode = "none" /\ Len(pointSources) = 2
  /\ pointSources[1].type = "source" /\ pointSources[1].id = 0
  /\ pointSources[2] = [id |-> 1, x |-> 0, y |-> 0, strength |-> -2000,
                        type |-> "sink"]

\* C30: whenever the dragged id is non-null, the mode is 'drag' and a source
\* with that id is in the list.
C30_DragRefersToListedSource ==
  draggedSourceId # -1 =>
    /\ interactionMode = "drag"
    /\ \E i \in 1..Len(pointSources) : pointSources[i].id = draggedSourceId

====
